---------------------------- MODULE Spec2Model ----------------------------
(***************************************************************************)
(* A state-machine model of the Gantt timeline control                     *)
(* (src/GanttView/GanttViewControl.tsx) and of its host adapter            *)
(* (src/GanttView/index.ts).                                               *)
(*                                                                         *)
(* Time.  A Date is modelled by its time value counted in ticks, with      *)
(* TicksPerDay ticks to a calendar day (the source's tick is the           *)
(* millisecond).  Tick 0 is 2024-01-01 00:00 local time.  The calendar is  *)
(* the Gregorian one (real month lengths, leap years) over NumYears years. *)
(* A null Date, and a null level, is the value Null.                       *)
(*                                                                         *)
(* Numbers.  Pixel quantities are integers as in the source.  Percentages  *)
(* are floating-point numbers in the source; the model keeps them in       *)
(* fixed point, Scale units to one percent, rounding each arithmetic       *)
(* operation to the nearest unit as the floating-point unit rounds each    *)
(* operation to the nearest double.                                        *)
(***************************************************************************)
EXTENDS Integers, Sequences, FiniteSets, TLC

VARIABLES
  props,                \* this.props of GanttViewControl
  state,                \* this.state of GanttViewControl
  nameResizeInfo,       \* this.nameResizeInfo: <<>> (undefined) or <<rec>>
  lastCenterSignature,  \* this.lastCenterSignature: <<>> (undefined) or a tuple
  measureTimers,        \* the pending timeouts of this.measureTimers, counted by callback
  listeners,            \* the window listeners the component has installed
  wrapper,              \* the DOM element behind wrapperRef
  phase,                \* "constructed", "mounted" or "unmounted"
  ordered,              \* what the last call of orderGanttRows returned (ids)
  lastEvent,            \* what the last handler did (an observation)
  host                  \* the GanttView instance of index.ts and the calls it made

vars == <<props, state, nameResizeInfo, lastCenterSignature, measureTimers,
          listeners, wrapper, phase, ordered, lastEvent, host>>

-----------------------------------------------------------------------------
(* Bounds of the model *)

\* rows of a dataset
MaxRows == 3
\* calendar years the model's calendar covers, from 2024 on
NumYears == 3
\* ticks to a calendar day
TicksPerDay == 2
\* pending timeouts the model lets accumulate
MaxTimers == 8
\* the entries of a colour configuration
MaxEntries == 3
\* rows of a dataset whose parentIds may loop
CycleRows == 4
\* fixed-point units to one (one percent, one pixel) for the source's
\* floating-point quantities
Scale == 100

-----------------------------------------------------------------------------
(* Values *)

\* null (Date | null, number | null)
Null == -1

\* Number.MAX_SAFE_INTEGER: above every time value.  The model's integers are
\* 32 bits wide, so the largest of them stands for it.
MAX_SAFE_INTEGER == 2147483647

Min(S) == CHOOSE x \in S : \A y \in S : x <= y
Max(S) == CHOOSE x \in S : \A y \in S : x >= y
MaxOf(a, b) == IF a >= b THEN a ELSE b
MinOf(a, b) == IF a <= b THEN a ELSE b

\* reduce((a, b) => a + b, 0), summed by halves to keep the evaluation shallow
RECURSIVE SumSeq(_)
SumSeq(s) ==
  IF Len(s) = 0 THEN 0
  ELSE IF Len(s) = 1 THEN s[1]
  ELSE SumSeq(SubSeq(s, 1, Len(s) \div 2))
         + SumSeq(SubSeq(s, Len(s) \div 2 + 1, Len(s)))

-----------------------------------------------------------------------------
(* The calendar behind Date *)

\* The days from 1970-01-01 to day doy (from 0, counted from March 1) of the
\* year yy of the proleptic Gregorian calendar, years running March to February
DaysOfEra(yy, doy) ==
  (yy \div 400) * 146097
    + ((yy % 400) * 365 + (yy % 400) \div 4 - (yy % 400) \div 100 + doy)
    - 719468

\* The days from 1970-01-01 to the civil date y-m-d, m counted from 1 (the
\* arithmetic Date does on its fields).
DaysFromCivil(y, m, d) ==
  DaysOfEra(IF m <= 2 THEN y - 1 ELSE y,
            (153 * (IF m > 2 THEN m - 3 ELSE m + 9) + 2) \div 5 + d - 1)

\* the civil date [y, m, d] of day doy of the March-based year y, whose month
\* from March is mp
CivilOfMonth(y, mp, doy) ==
  [y |-> IF mp < 10 THEN y ELSE y + 1,
   m |-> IF mp < 10 THEN mp + 3 ELSE mp - 9,
   d |-> doy - (153 * mp + 2) \div 5 + 1]

CivilOfDayOfYear(y, doy) == CivilOfMonth(y, (5 * doy + 2) \div 153, doy)

\* doe is the day of the 400-year era, yoe the year of the era
CivilOfYearOfEra(era, doe, yoe) ==
  CivilOfDayOfYear(yoe + era * 400,
                   doe - (365 * yoe + yoe \div 4 - yoe \div 100))

CivilOfDayOfEra(era, doe) ==
  CivilOfYearOfEra(era, doe,
                   (doe - doe \div 1460 + doe \div 36524 - doe \div 146096)
                     \div 365)

CivilOfShifted(zz) == CivilOfDayOfEra(zz \div 146097, zz % 146097)

\* the civil date of a day count from 1970-01-01: [y, m, d], m counted from 1
CivilFromDays(z) == CivilOfShifted(z + 719468)

\* time value 0 is 2024-01-01 00:00 local time
EpochDay == DaysFromCivil(2024, 1, 1)

getFullYear(t) == CivilFromDays(t \div TicksPerDay + EpochDay).y
\* Date.getMonth() counts from 0
getMonth(t) == CivilFromDays(t \div TicksPerDay + EpochDay).m - 1
\* Date.getDate()
getDate(t) == CivilFromDays(t \div TicksPerDay + EpochDay).d
\* Date.getDay(): 0 is Sunday; 1970-01-01 is a Thursday
getDay(t) == (t \div TicksPerDay + EpochDay + 4) % 7
\* Date.toDateString(): the calendar day of a time value
toDateString(t) == t \div TicksPerDay

\* new Date(y, m, 1), m from 0 and possibly 12 or more (Date carries it over)
NewDateYM1(y, m) ==
  (DaysFromCivil(y + (m \div 12), (m % 12) + 1, 1) - EpochDay) * TicksPerDay
\* new Date(y, m, d) at 00:00
DateOf(y, m, d) == NewDateYM1(y, m) + (d - 1) * TicksPerDay
\* new Date(y, m + 1, 0, 23, 59, 59, 999): the last tick of month m
NewDateEndOfMonth(y, m) == NewDateYM1(y, m + 1) - 1

\* the months from January 2024 to the month of a time value
MonthIdxOf(t) == (getFullYear(t) - 2024) * 12 + getMonth(t)

\* the last tick of the years the datasets' dates are drawn from
Horizon == NewDateYM1(2024 + NumYears, 0) - 1

-----------------------------------------------------------------------------
(* orderGanttRows *)

\* (r.name || "").toLowerCase(), as the rank of the lower-cased name in the
\* order of < on strings
LowerName(name) ==
  CASE name = "" -> 0
    [] name \in {"a", "A"} -> 1
    [] name \in {"b", "B"} -> 2
    [] name = "val" -> 3
    [] name = "VAL" -> 3

\* (r.rowType || "").toLowerCase()
LowerType(t) ==
  CASE t = "Milestone" -> "milestone"
    [] t = "MILESTONE" -> "milestone"
    [] OTHER -> t

IsMilestone(r) == LowerType(r.rowType) = "milestone"

\* valFor of compare
valFor(r, sortField) ==
  IF sortField = "name" THEN LowerName(r.name)
  ELSE IF sortField = "startDate"
    THEN (IF r.startDate # Null THEN r.startDate ELSE MAX_SAFE_INTEGER)
  ELSE IF sortField = "endDate"
    THEN (IF r.endDate # Null THEN r.endDate ELSE MAX_SAFE_INTEGER)
  ELSE LowerName(r.name)

\* a.id.localeCompare(b.id)
localeCompare(a, b) == IF a < b THEN -1 ELSE IF a > b THEN 1 ELSE 0

compare(a, b, sortField, sortDir) ==
  LET dir == IF sortDir = "asc" THEN 1 ELSE -1
      av == valFor(a, sortField)
      bv == valFor(b, sortField)
      an == LowerName(a.name)
      bn == LowerName(b.name)
  IN  IF av < bv THEN (-1) * dir
      ELSE IF av > bv THEN 1 * dir
      ELSE IF an < bn THEN -1
      ELSE IF an > bn THEN 1
      ELSE localeCompare(a.id, b.id)

\* list.sort(compare): a stable sort, here by insertion
RECURSIVE InsertRow(_, _, _, _)
InsertRow(sorted, r, sortField, sortDir) ==
  IF sorted = <<>> THEN <<r>>
  ELSE IF compare(r, Head(sorted), sortField, sortDir) < 0
    THEN <<r>> \o sorted
    ELSE <<Head(sorted)>> \o InsertRow(Tail(sorted), r, sortField, sortDir)

RECURSIVE sortList(_, _, _)
sortList(list, sortField, sortDir) ==
  IF list = <<>> THEN <<>>
  ELSE InsertRow(sortList(SubSeq(list, 1, Len(list) - 1), sortField, sortDir),
                 list[Len(list)], sortField, sortDir)

\* the position in data of the row object with this id
RowIndex(data, id) == CHOOSE i \in DOMAIN data : data[i].id = id

IdsOf(list) == [i \in DOMAIN list |-> list[i].id]

\* childrenMap[pid] without the filter of line 393
childrenOfUnfiltered(data, pid) ==
  SelectSeq(data, LAMBDA r : r.parentId = pid)

\* childrenMap[pid] had childrenMap been kept from one call to the next:
\* every row is pushed again
childrenOfKept(data, pid) ==
  SelectSeq(data, LAMBDA r : r.name # "val" /\ r.parentId = pid)
    \o SelectSeq(data, LAMBDA r : r.name # "val" /\ r.parentId = pid)

\* childrenMap[pid] over the rows not named "val"
childrenOf(data, pid) ==
  SelectSeq(data, LAMBDA r : r.name # "val" /\ r.parentId = pid)

\* process(row, level) without its reset of row.milestones
MarkRowKeepMilestones(row, level, milestoneKids) ==
  [row EXCEPT !.level = level,
              !.milestones = row.milestones \o IdsOf(milestoneKids)]

\* the start of process(row, level): row.level = level; row.milestones = [];
\* then the milestone children are pushed in dataset order
MarkRow(row, level, milestoneKids) ==
  [row EXCEPT !.level = level, !.milestones = IdsOf(milestoneKids)]

\* list.forEach(row => process(row, level)) over the rows with these ids, with
\* process(row, level) in place: the row is marked and pushed to result, then
\* its sorted task children are processed one level down.  acc is
\* [result, data]: the result array and the row objects as mutated so far.
RECURSIVE process(_, _, _, _, _)
process(acc, ids, level, sortField, sortDir) ==
  IF ids = <<>> THEN acc
  ELSE LET id == Head(ids)
           kids == childrenOf(acc.data, id)
           msKids == SelectSeq(kids, IsMilestone)
           taskKids == sortList(SelectSeq(kids, LAMBDA k : ~IsMilestone(k)),
                                sortField, sortDir)
           i == RowIndex(acc.data, id)
           marked == [acc.data EXCEPT ![i] = MarkRow(acc.data[i], level, msKids)]
           after == process([result |-> Append(acc.result, id), data |-> marked],
                            IdsOf(taskKids), level + 1, sortField, sortDir)
       IN  process(after, Tail(ids), level, sortField, sortDir)

\* orderGanttRows() without the filter that keeps milestones out of the roots
orderGanttRowsMilestoneRoots(data, sortField, sortDir) ==
  process([result |-> <<>>, data |-> data],
             IdsOf(sortList(childrenOf(data, 0), sortField, sortDir)), 0,
             sortField, sortDir)

\* orderGanttRows(): [result |-> the ids returned, data |-> props.data after
\* the call]; "" as a parentId is the id 0
orderGanttRows(data, sortField, sortDir) ==
  LET roots == sortList(SelectSeq(childrenOf(data, 0),
                                  LAMBDA r : ~IsMilestone(r)),
                        sortField, sortDir)
  IN  process([result |-> <<>>, data |-> data], IdsOf(roots), 0,
                 sortField, sortDir)

-----------------------------------------------------------------------------
(* Fixed-point arithmetic standing for the source's floating point *)

\* floor(a / b), b # 0
FloorDiv(a, b) == IF b > 0 THEN a \div b ELSE (0 - a) \div (0 - b)
\* a / b rounded to the nearest integer, b # 0
RoundDiv(a, b) == FloorDiv(2 * a + b, 2 * b)

\* the number n (a percentage, a pixel count) in fixed point
Fixed(n) == n * Scale

\* the off-axis sentinel, the number -1
OffAxis == Fixed(-1)

-----------------------------------------------------------------------------
(* Timeline geometry *)

\* the rows a row's milestones list refers to
MilestoneRows(data, r) == [k \in DOMAIN r.milestones |-> data[RowIndex(data, r.milestones[k])]]

\* the start dates getTimelineBounds scans: each row's and its milestones'
StartDates(data) ==
  {data[i].startDate : i \in DOMAIN data}
    \cup UNION {{MilestoneRows(data, data[i])[k].startDate :
                   k \in DOMAIN data[i].milestones} : i \in DOMAIN data}

\* the end dates getTimelineBounds scans
EndDates(data) ==
  {data[i].endDate : i \in DOMAIN data}
    \cup UNION {{MilestoneRows(data, data[i])[k].endDate :
                   k \in DOMAIN data[i].milestones} : i \in DOMAIN data}

\* let minStart = null ... if (!minStart) minStart = this.props.ganttStartDate
MinOr(S, fallback) == IF S = {} THEN fallback ELSE Min(S)
MaxOr(S, fallback) == IF S = {} THEN fallback ELSE Max(S)

\* new Date(d.getFullYear(), d.getMonth(), 1)
MonthStartOf(t) == NewDateYM1(getFullYear(t), getMonth(t))
\* new Date(d.getFullYear(), d.getMonth() + 1, 0, 23, 59, 59, 999)
MonthEndOf(t) == NewDateEndOfMonth(getFullYear(t), getMonth(t))

\* getTimelineBounds(): [start, end]; the months array is read by no caller
getTimelineBounds(p) ==
  [start |-> MonthStartOf(MinOr(StartDates(p.data) \ {Null}, p.ganttStartDate)),
   end |-> MonthEndOf(MonthStartOf(MaxOr(EndDates(p.data) \ {Null},
                                         p.ganttEndDate)))]

\* the month branch of getSegments
MonthSegments(start, end) ==
  IF end < start THEN <<>>
  ELSE [k \in 1..(MonthIdxOf(end) - MonthIdxOf(start) + 1) |->
          [start |-> NewDateYM1(2024, MonthIdxOf(start) + k - 1),
           label |-> <<"month", (MonthIdxOf(start) + k - 1) % 12,
                       (2024 + (MonthIdxOf(start) + k - 1) \div 12) % 100>>]]

\* "W" + Math.ceil(((wkStart - oneJan) / 86400000 + oneJan.getDay() + 1) / 7)
WeekLabel(wkStart, oneJan) ==
  <<"W", ((wkStart - oneJan) \div TicksPerDay + getDay(oneJan) + 1 + 6) \div 7>>

WeekSegment(wkStart) ==
  [start |-> wkStart,
   label |-> WeekLabel(wkStart, NewDateYM1(getFullYear(wkStart), 0))]

\* the weeks from the Monday first while cursor <= end
WeekSegmentsFrom(first, end) ==
  IF end < first THEN <<>>
  ELSE [k \in 1..((end - first) \div (7 * TicksPerDay) + 1) |->
          WeekSegment(first + (k - 1) * 7 * TicksPerDay)]

\* the week branch of getSegments
WeekSegments(start, end) ==
  WeekSegmentsFrom(start - ((getDay(start) + 6) % 7) * TicksPerDay, end)

\* the years y..lastY
YearSegmentsOf(y, lastY) ==
  IF lastY < y THEN <<>>
  ELSE [k \in 1..(lastY - y + 1) |->
          [start |-> NewDateYM1(y + k - 1, 0), label |-> <<"year", y + k - 1>>]]

\* the year branch of getSegments
YearSegments(start, end) == YearSegmentsOf(getFullYear(start), getFullYear(end))

\* getSegments without the fallback of line 545
OrNoSegment(segments, start) == segments

\* if (segments.length === 0) segments.push({ start, label: "" })
OrStartSegment(segments, start) ==
  IF Len(segments) = 0 THEN <<[start |-> start, label |-> <<>>]>>
  ELSE segments

\* getSegments() on the bounds b at zoom level z
SegmentsIn(b, z) ==
  OrStartSegment(IF z = "month" THEN MonthSegments(b.start, b.end)
                 ELSE IF z = "week" THEN WeekSegments(b.start, b.end)
                 ELSE IF z = "year" THEN YearSegments(b.start, b.end)
                 ELSE <<>>,
                 b.start)

getSegments(p, s) == SegmentsIn(getTimelineBounds(p), s.zoomLevel)

\* calculateStartXInWindow(date, winStart, winEnd), in fixed point
calculateStartXInWindow(date, winStart, winEnd) ==
  IF date = Null THEN OffAxis
  ELSE IF date < winStart THEN 0
  ELSE IF date > winEnd THEN OffAxis
  ELSE RoundDiv((date - winStart) * Fixed(100), winEnd - winStart)

\* the body of calculateStartX(date) once getTimelineBounds() has returned b
StartXIn(b, date) ==
  IF date = Null THEN OffAxis
  ELSE IF date < b.start THEN 0
  ELSE IF date > b.end THEN OffAxis
  ELSE RoundDiv((date - b.start) * Fixed(100), b.end - b.start)

\* calculateStartX(date)
calculateStartX(p, date) == StartXIn(getTimelineBounds(p), date)

\* the clipped width without the sentinel of line 610: an empty clipped range
\* has the width 0
ClippedWidthOrZero(clipStart, clipEnd, total) ==
  IF clipEnd <= clipStart THEN 0
  ELSE RoundDiv((clipEnd - clipStart) * Fixed(100), total)

\* the clipped width of calculateEndWidth and calculateEndWidthInWindow
ClippedWidth(clipStart, clipEnd, total) ==
  IF clipEnd <= clipStart THEN Fixed(2)
  ELSE RoundDiv((clipEnd - clipStart) * Fixed(100), total)

\* calculateEndWidthInWindow(startDate, endDate, winStart, winEnd)
calculateEndWidthInWindow(startDate, endDate, winStart, winEnd) ==
  IF startDate = Null \/ endDate = Null THEN OffAxis
  ELSE IF endDate < winStart \/ startDate > winEnd THEN OffAxis
  ELSE ClippedWidth(IF startDate < winStart THEN winStart ELSE startDate,
                    IF endDate > winEnd THEN winEnd ELSE endDate,
                    winEnd - winStart)

\* the body of calculateEndWidth once getTimelineBounds() has returned b
EndWidthIn(b, startDate, endDate) ==
  IF startDate = Null \/ endDate = Null THEN OffAxis
  ELSE IF endDate < b.start \/ startDate > b.end THEN OffAxis
  ELSE ClippedWidth(IF startDate < b.start THEN b.start ELSE startDate,
                    IF endDate > b.end THEN b.end ELSE endDate,
                    b.end - b.start)

\* calculateEndWidth(startDate, endDate)
calculateEndWidth(p, startDate, endDate) ==
  EndWidthIn(getTimelineBounds(p), startDate, endDate)

-----------------------------------------------------------------------------
(* GanttTable: the layout of the timeline columns *)

\* the sticky columns' width
fixedWidthOf(p, s) ==
  s.nameWidth + (IF p.expandDetails THEN s.startWidth + s.endWidth ELSE 0)

\* desiredVisible; an undefined columnViewCount is 0
desiredVisibleOf(p, s, segLen) ==
  IF s.zoomLevel = "week"
    THEN (IF p.columnViewCount > 0 THEN p.columnViewCount ELSE segLen) * 2
  ELSE IF s.zoomLevel = "month"
    THEN (IF p.columnViewCount > 0 THEN p.columnViewCount ELSE segLen)
  ELSE segLen

\* visibleCount
visibleCountOf(p, s, segLen) ==
  MaxOf(1, MinOf(segLen, desiredVisibleOf(p, s, segLen)))

\* this.state.containerWidth || (liveWrapper ? liveWrapper.clientWidth : 0) || 0;
\* wrapperRef.current is null until the component is mounted
containerPxOf(s, w, ph) ==
  IF s.containerWidth # 0 THEN s.containerWidth
  ELSE IF ph = "constructed" THEN 0 ELSE w.clientWidth

\* segEnd of segment i: the next segment's start, or the axis end
SegEnd(segments, i, end) ==
  IF i + 1 <= Len(segments) THEN segments[i + 1].start ELSE end

\* Number(end) - Number(start) || 1
totalMsOf(b) == IF b.end - b.start = 0 THEN 1 ELSE b.end - b.start

\* the widths before the remainder is distributed:
\* Math.max(8, Math.floor((availablePx * segMs) / totalMs))
YearFloorWidths(segments, b, availablePx) ==
  [i \in DOMAIN segments |->
     MaxOf(8, FloorDiv(availablePx
                         * MaxOf(0, SegEnd(segments, i, b.end) - segments[i].start),
                       totalMsOf(b)))]

\* the pixels the loop can take before it breaks: it takes one from a segment
\* wider than 8, round robin from segment 1, and breaks at the first segment
\* it meets that is not; that is the first of the narrowest segments, met
\* after (its width - 8) full rounds
CanTake(widths, narrowest) ==
  (narrowest - 8) * Len(widths)
    + (Min({i \in DOMAIN widths : widths[i] = narrowest}) - 1)

\* widths after steps pixels were added (sign 1) or taken (sign -1), one a
\* step, round robin from segment 1
Stepped(widths, steps, sign) ==
  [i \in DOMAIN widths |->
     widths[i] + sign * (steps \div Len(widths)
                           + (IF i <= steps % Len(widths) THEN 1 ELSE 0))]

\* The while loop that distributes the remainder.  With remainder > 0 every
\* step adds a pixel, so the loop ends with remainder 0; with remainder < 0 it
\* ends when the remainder is 0 or at the break.
DistributeRemainder(widths, remainder) ==
  IF Len(widths) = 0 \/ remainder = 0 THEN widths
  ELSE IF remainder > 0 THEN Stepped(widths, remainder, 1)
  ELSE Stepped(widths,
               MinOf(0 - remainder,
                     CanTake(widths, Min({widths[i] : i \in DOMAIN widths}))),
               -1)

\* perSegWidths.map(w => Math.max(8, Math.floor(w * scale)))
Scaled(widths, target, sum) ==
  [i \in DOMAIN widths |-> MaxOf(8, FloorDiv(widths[i] * target, sum))]

\* perSegWidths[perSegWidths.length-1] += (target - sum2)
FixLast(scaled, target) ==
  IF SumSeq(scaled) # target /\ Len(scaled) > 0
  THEN [scaled EXCEPT ![Len(scaled)] = scaled[Len(scaled)] + (target - SumSeq(scaled))]
  ELSE scaled

\* the scaling of the year view down to three viewports
ScaleDown(widths, containerPx, fixedWidth) ==
  IF fixedWidth + SumSeq(widths) > containerPx * 3 + fixedWidth
  THEN FixLast(Scaled(widths, containerPx * 3, SumSeq(widths)), containerPx * 3)
  ELSE widths

\* the year branch: floors, remainder loop, scaling
YearWidths(floors, availablePx, containerPx, fixedWidth) ==
  ScaleDown(DistributeRemainder(floors, availablePx - SumSeq(floors)),
            containerPx, fixedWidth)

\* segWidthPx of GanttTable, clamped to 160
segWidthPxOf(availablePx, visibleCount) ==
  MinOf(160, MaxOf(8, availablePx \div visibleCount))

\* perSegWidths for the bounds b, the segments and the measured widths
WidthsIn(p, s, b, segments, containerPx, availablePx) ==
  IF s.zoomLevel = "year"
  THEN YearWidths(YearFloorWidths(segments, b, availablePx), availablePx,
                  containerPx, fixedWidthOf(p, s))
  ELSE [i \in DOMAIN segments |->
          segWidthPxOf(availablePx, visibleCountOf(p, s, Len(segments)))]

WidthsOn(p, s, b, containerPx) ==
  WidthsIn(p, s, b, SegmentsIn(b, s.zoomLevel), containerPx,
           MaxOf(0, containerPx - fixedWidthOf(p, s)))

\* availablePx of GanttTable
availablePxOf(p, s, w, ph) ==
  MaxOf(0, containerPxOf(s, w, ph) - fixedWidthOf(p, s))

\* perSegWidths of GanttTable, as rendered
perSegWidths(p, s, w, ph) ==
  WidthsOn(p, s, getTimelineBounds(p), containerPxOf(s, w, ph))

\* tableWidthPx of GanttTable
tableWidthPxOf(p, s, w, ph) ==
  fixedWidthOf(p, s) + SumSeq(perSegWidths(p, s, w, ph))

-----------------------------------------------------------------------------
(* GanttTable: the year pixel map and the bars *)

\* yearSegMeta: per segment its start, end, width and cumulative offset
MetaOf(segments, end, widths) ==
  [i \in DOMAIN segments |->
     [start |-> segments[i].start,
      end |-> SegEnd(segments, i, end),
      width |-> widths[i],
      cum |-> SumSeq(SubSeq(widths, 1, i - 1))]]

MetaOn(p, s, b, containerPx) ==
  MetaOf(SegmentsIn(b, s.zoomLevel), b.end, WidthsOn(p, s, b, containerPx))

yearSegMeta(p, s, w, ph) ==
  MetaOn(p, s, getTimelineBounds(p), containerPxOf(s, w, ph))

\* yearPixelTotal
yearPixelTotalOf(meta) ==
  IF Len(meta) = 0 THEN 0 ELSE meta[Len(meta)].cum + meta[Len(meta)].width

\* yearPixelTotal || 1
yearPixelTotalOr1(meta) ==
  IF yearPixelTotalOf(meta) = 0 THEN 1 ELSE yearPixelTotalOf(meta)

\* Number(m.end) - Number(m.start) || 1
segDurOf(m) == IF m.end - m.start = 0 THEN 1 ELSE m.end - m.start

\* m.cum + (m.width * inSeg) / segDur, in fixed point
PxIn(m, d) ==
  Fixed(m.cum)
    + RoundDiv(m.width * MinOf(segDurOf(m), MaxOf(0, d - m.start)) * Scale,
               segDurOf(m))

\* yearDateToPct(d)
yearDateToPct(meta, end, d) ==
  IF d = Null \/ Len(meta) = 0 THEN OffAxis
  ELSE IF d < meta[1].start THEN 0
  ELSE IF d > end THEN OffAxis
  ELSE RoundDiv(PxIn(meta[Min({k \in DOMAIN meta :
                                 d < meta[k].end \/ k = Len(meta)})], d) * 100,
                yearPixelTotalOr1(meta))

\* the end of yearRangeToPct: <<>> for null, else <<[left, width]>>
RangeOf(left, right, total) ==
  IF left < 0 \/ right < 0 THEN <<>>
  ELSE <<[left |-> left,
          width |-> MaxOf(right - left, RoundDiv(2 * Fixed(100), total))]>>

ClippedRange(meta, end, clipStart, clipEnd) ==
  IF clipEnd <= clipStart THEN <<>>
  ELSE RangeOf(yearDateToPct(meta, end, clipStart),
               yearDateToPct(meta, end, clipEnd), yearPixelTotalOr1(meta))

\* yearRangeToPct(s, e)
yearRangeToPct(meta, end, s, e) ==
  IF s = Null \/ e = Null \/ Len(meta) = 0 THEN <<>>
  ELSE IF e < meta[1].start \/ s > end THEN <<>>
  ELSE ClippedRange(meta, end,
                    IF s < meta[1].start THEN meta[1].start ELSE s,
                    IF e > end THEN end ELSE e)

\* this.state.endDateOverrides[row.id] || row.endDate
effectiveEndOf(s, row) ==
  IF row.id \in DOMAIN s.endDateOverrides THEN s.endDateOverrides[row.id]
  ELSE row.endDate

\* liveWidth of a row whose computed width is widthPct
liveWidthOf(s, row, widthPct) ==
  IF s.editingEnd # <<>> /\ s.editingEnd[1].rowId = row.id
  THEN s.editingEnd[1].liveWidthPct
  ELSE widthPct

BarRecord(s, row, leftPct, widthPct, effectiveEnd) ==
  [leftPct |-> leftPct,
   widthPct |-> widthPct,
   liveWidth |-> liveWidthOf(s, row, widthPct),
   effectiveEnd |-> effectiveEnd,
   shown |-> leftPct # OffAxis /\ widthPct # OffAxis]

\* if (yr) { leftPct = yr.left; widthPct = yr.width; }
BarFrom(s, b, row, effectiveEnd, yr) ==
  IF s.zoomLevel = "year" /\ yr # <<>>
  THEN BarRecord(s, row, yr[1].left, yr[1].width, effectiveEnd)
  ELSE BarRecord(s, row, StartXIn(b, row.startDate),
                 EndWidthIn(b, row.startDate, effectiveEnd), effectiveEnd)

BarOn(s, b, meta, row, effectiveEnd) ==
  BarFrom(s, b, row, effectiveEnd,
          IF s.zoomLevel = "year"
          THEN yearRangeToPct(meta, b.end, row.startDate, effectiveEnd)
          ELSE <<>>)

BarIn(p, s, b, containerPx, row) ==
  BarOn(s, b,
        IF s.zoomLevel = "year" THEN MetaOn(p, s, b, containerPx) ELSE <<>>,
        row, effectiveEndOf(s, row))

\* leftPct, widthPct and liveWidth of a row's bar, as the table body computes
\* them
BarOf(p, s, w, ph, row) ==
  BarIn(p, s, getTimelineBounds(p), containerPxOf(s, w, ph), row)

\* mLeft and mWidth of a milestone marker, computed like a bar from the
\* milestone's own dates
MarkerOn(p, s, b, containerPx, m) ==
  BarOn(s, b, IF s.zoomLevel = "year" THEN MetaOn(p, s, b, containerPx) ELSE <<>>,
        m, m.endDate)

MarkerOf(p, s, w, ph, m) ==
  MarkerOn(p, s, getTimelineBounds(p), containerPxOf(s, w, ph), m)

\* currentDateX, the position of the current-date line
currentDateX(p, s, w, ph) ==
  IF s.zoomLevel = "year"
  THEN yearDateToPct(yearSegMeta(p, s, w, ph), getTimelineBounds(p).end,
                     p.currentDate)
  ELSE calculateStartX(p, p.currentDate)

\* the rows the per-segment totals look at: both dates present, and neither
\* a milestone nor of type "unknown"
countedInTotals(r) ==
  /\ r.startDate # Null
  /\ r.endDate # Null
  /\ LowerType(r.rowType) \notin {"milestone", "unknown"}

\* r.startDate <= segEnd && effectiveEnd >= segStart
overlapsSegment(s, r, segStart, segEnd) ==
  r.startDate <= segEnd /\ effectiveEndOf(s, r) >= segStart

\* the project and tender counts of the segment from segStart to segEnd
totalOf(p, s, segStart, segEnd) ==
  [project |->
     Cardinality({k \in DOMAIN p.data :
                    /\ countedInTotals(p.data[k])
                    /\ overlapsSegment(s, p.data[k], segStart, segEnd)
                    /\ LowerType(p.data[k].rowType) # "tender"}),
   tender |->
     Cardinality({k \in DOMAIN p.data :
                    /\ countedInTotals(p.data[k])
                    /\ overlapsSegment(s, p.data[k], segStart, segEnd)
                    /\ LowerType(p.data[k].rowType) = "tender"})]

\* segments.map((seg, i) => ...): a segment ends where the next one starts,
\* the last one at the axis end
totalsOn(p, s, segments, end) ==
  [i \in DOMAIN segments |->
     totalOf(p, s, segments[i].start,
             IF i + 1 <= Len(segments) THEN segments[i + 1].start ELSE end)]

\* the per-segment totals of the header
totals(p, s) == totalsOn(p, s, getSegments(p, s), getTimelineBounds(p).end)

-----------------------------------------------------------------------------
(* Auto-centering *)

buildCenterSignature(p, s) ==
  <<s.zoomLevel, s.containerWidth, IF p.expandDetails THEN 1 ELSE 0,
    p.columnViewCount, Len(getSegments(p, s)), toDateString(p.currentDate),
    s.sortField, s.sortDir>>

\* Math.max(0, Math.min(tableWidthPx - viewport, Math.floor(targetX - viewport / 2)))
desiredScrollOf(tableWidthPx, viewport, targetX) ==
  MaxOf(0, MinOf(tableWidthPx - viewport,
                 FloorDiv(2 * targetX - Fixed(viewport), 2 * Scale)))

\* pct, with the off-axis sentinel replaced by 0 or 100
CenterPct(b, currentDate, pct) ==
  IF pct < 0 THEN (IF currentDate < b.start THEN 0 ELSE Fixed(100)) ELSE pct

ScrollFor(fixedWidth, timelineWidth, viewport, pct) ==
  desiredScrollOf(fixedWidth + timelineWidth, viewport,
                  Fixed(fixedWidth) + RoundDiv(pct * timelineWidth, 100))

\* timelineWidth of centerOnCurrentDate: no clamp to 160 here
timelineWidthOf(p, s, segLen, availablePx) ==
  IF s.zoomLevel = "year" THEN availablePx
  ELSE MaxOf(8, availablePx \div visibleCountOf(p, s, segLen)) * segLen

CenterIn(p, s, w, b, containerPx) ==
  ScrollFor(fixedWidthOf(p, s),
            timelineWidthOf(p, s, Len(SegmentsIn(b, s.zoomLevel)),
                            MaxOf(0, containerPx - fixedWidthOf(p, s))),
            IF w.clientWidth # 0 THEN w.clientWidth ELSE containerPx,
            CenterPct(b, p.currentDate, StartXIn(b, p.currentDate)))

\* centerOnCurrentDate(): the value it assigns to wrapper.scrollLeft
centerOnCurrentDate(p, s, w) ==
  CenterIn(p, s, w, getTimelineBounds(p),
           IF s.containerWidth # 0 THEN s.containerWidth ELSE w.clientWidth)

-----------------------------------------------------------------------------
(* The component *)

\* the callbacks window.setTimeout is given: updateContainerWidth, its retry
\* closure, and () => this.centerOnCurrentDate()
TimerKinds == {"measure", "retry", "center"}

\* measureTimers = []
NoTimers == [k \in TimerKinds |-> 0]

\* the timeouts pending
Pending(timers) == timers["measure"] + timers["retry"] + timers["center"]

\* this.measureTimers.push(window.setTimeout(callback, delay)), for n callbacks
\* of one kind
Scheduled(timers, kind, n) == [timers EXCEPT ![kind] = @ + n]

\* a pending timeout has run
Fired(timers, kind) == [timers EXCEPT ![kind] = @ - 1]

\* the state initialiser of the class
InitialState ==
  [nameWidth |-> 250, startWidth |-> 100, endWidth |-> 100,
   editingEnd |-> <<>>, endDateOverrides |-> <<>>, zoomLevel |-> "year",
   containerWidth |-> 0, sortField |-> "name", sortDir |-> "asc"]

-----------------------------------------------------------------------------
(* index.ts: the colours of updateView *)

\* A string of the colour configuration is the sequence of its lexemes: a
\* word ("project", "tender", a colour), a space, a quote, a bracket, or one
\* of , ; : =.  The empty sequence is the empty string and undefined alike,
\* both being falsy.
Space == " "
Quote == "\""
\* [,;\n|]
Separators == {",", ";"}
\* [:=]
KeySeparators == {":", "="}
LabelWords == {"project", "tender"}

\* the defaults: light orange and light blue
DefaultProject == <<"#FFB74D">>
DefaultTender == <<"#90CAF9">>

RECURSIVE trimStart(_)
trimStart(s) ==
  IF s # <<>> /\ Head(s) = Space THEN trimStart(Tail(s)) ELSE s

RECURSIVE trimEnd(_)
trimEnd(s) ==
  IF s # <<>> /\ s[Len(s)] = Space THEN trimEnd(SubSeq(s, 1, Len(s) - 1))
  ELSE s

\* String.prototype.trim
trim(s) == trimEnd(trimStart(s))

trimOneQuoteAtEnd(s) ==
  IF s # <<>> /\ s[Len(s)] = Quote THEN SubSeq(s, 1, Len(s) - 1) ELSE s

\* s.replace(/^['"]|['"]$/g, "")
stripQuotes(s) ==
  trimOneQuoteAtEnd(IF s # <<>> /\ Head(s) = Quote THEN Tail(s) ELSE s)

\* the position of the first lexeme of s that is in seps
firstOf(s, seps) ==
  CHOOSE i \in DOMAIN s :
    s[i] \in seps /\ \A j \in 1..(i - 1) : s[j] \notin seps

\* s.split(/[...]/) on the lexemes of seps
RECURSIVE split(_, _)
split(s, seps) ==
  IF \A i \in DOMAIN s : s[i] \notin seps THEN <<s>>
  ELSE <<SubSeq(s, 1, firstOf(s, seps) - 1)>>
         \o split(SubSeq(s, firstOf(s, seps) + 1, Len(s)), seps)

\* parts.join(":")
RECURSIVE joinColon(_)
joinColon(parts) ==
  IF Len(parts) = 0 THEN <<>>
  ELSE IF Len(parts) = 1 THEN parts[1]
  ELSE parts[1] \o <<":">> \o joinColon(Tail(parts))

\* .map(s => s.trim()).filter(Boolean)
trimmedNonEmpty(list) ==
  SelectSeq([i \in DOMAIN list |-> trim(list[i])], LAMBDA t : t # <<>>)

\* the strip of wrapping quotes; substring(1, length - 1) of a string that is
\* one quote is that quote
unwrapped(val) ==
  IF Len(val) >= 2 /\ Head(val) = Quote /\ val[Len(val)] = Quote
  THEN trim(SubSeq(val, 2, Len(val) - 1))
  ELSE val

\* JSON.parse of the rest of an array of strings: mode "value" before a
\* string, "in" inside it, "after" behind it.  Of the lexemes here a JSON
\* value can only be a string or an array.
RECURSIVE jsonScan(_, _, _, _)
jsonScan(s, mode, cur, acc) ==
  IF s = <<>> THEN [ok |-> FALSE, values |-> <<>>]
  ELSE IF mode = "in"
    THEN (IF Head(s) = Quote THEN jsonScan(Tail(s), "after", <<>>, Append(acc, cur))
          ELSE jsonScan(Tail(s), "in", Append(cur, Head(s)), acc))
  ELSE IF Head(s) = Space THEN jsonScan(Tail(s), mode, cur, acc)
  ELSE IF mode = "value"
    THEN (IF Head(s) = Quote THEN jsonScan(Tail(s), "in", <<>>, acc)
          ELSE [ok |-> FALSE, values |-> <<>>])
  ELSE IF Head(s) = "," THEN jsonScan(Tail(s), "value", <<>>, acc)
  ELSE IF Head(s) = "]" /\ Tail(s) = <<>> THEN [ok |-> TRUE, values |-> acc]
  ELSE [ok |-> FALSE, values |-> <<>>]

\* JSON.parse(val) of a val that starts with "[": ok when it is an array
JSONparse(val) ==
  IF trimStart(Tail(val)) = <<"]">> THEN [ok |-> TRUE, values |-> <<>>]
  ELSE jsonScan(Tail(val), "value", <<>>, <<>>)

\* arr.map(v => String(v).trim()).filter(v => v)
\*    .map(v => v.replace(/^['"]|['"]$/g, ""))
arrayColors(values) ==
  [i \in DOMAIN trimmedNonEmpty(values) |->
     stripQuotes(trimmedNonEmpty(values)[i])]

\* token.replace(/^(project|tender)\s*/i, "")
withoutLabelWord(token) ==
  IF token # <<>> /\ Head(token) \in LabelWords THEN trimStart(Tail(token))
  ELSE token

\* the token of a part: everything after its first : or =, without quotes
\* and without a leading label word
tokenOf(part) ==
  trim(withoutLabelWord(trim(stripQuotes(
    IF Len(split(part, KeySeparators)) >= 2
    THEN joinColon(Tail(split(part, KeySeparators)))
    ELSE part))))

\* the manual parsing of parseColors: split, trim, tokens
cleaned(val) ==
  SelectSeq([i \in DOMAIN trimmedNonEmpty(split(val, Separators)) |->
               tokenOf(trimmedNonEmpty(split(val, Separators))[i])],
            LAMBDA t : t # <<>>)

\* val.replace(/[\[\]"]/g, "")
withoutBrackets(val) == SelectSeq(val, LAMBDA c : c \notin {"[", "]", Quote})

\* parseColors once the wrapping quotes are stripped
parsedUnwrapped(val) ==
  IF val # <<>> /\ Head(val) = "["
  THEN (IF JSONparse(val).ok THEN arrayColors(JSONparse(val).values)
        ELSE cleaned(withoutBrackets(val)))
  ELSE cleaned(val)

\* parseColors(input)
parseColors(input) ==
  IF input = <<>> THEN <<>> ELSE parsedUnwrapped(unwrapped(trim(input)))

\* the first lexeme of s from position i on that is no space; Len(s) + 1 when
\* there is none
RECURSIVE skipSpaces(_, _)
skipSpaces(s, i) ==
  IF i <= Len(s) /\ s[i] = Space THEN skipSpaces(s, i + 1) ELSE i

\* the lexemes of s from position i up to the next separator
RECURSIVE upToSeparator(_, _)
upToSeparator(s, i) ==
  IF i > Len(s) \/ s[i] \in Separators THEN <<>>
  ELSE <<s[i]>> \o upToSeparator(s, i + 1)

\* label\s*[:=]\s*([^,;\n|]+) at position i of src: the capture in a
\* one-element sequence, or no match.  k is the position behind the spaces
\* that follow the : or =; when a separator or the end is there, \s* gives
\* back one space for the capture.
captureBehind(src, afterKey, k) ==
  IF k <= Len(src) /\ src[k] \notin Separators THEN <<upToSeparator(src, k)>>
  ELSE IF k > afterKey THEN <<<<Space>>>>
  ELSE <<>>

labelMatchAt(src, i, label) ==
  IF src[i] = label /\ skipSpaces(src, i + 1) <= Len(src)
     /\ src[skipSpaces(src, i + 1)] \in KeySeparators
  THEN captureBehind(src, skipSpaces(src, i + 1) + 1,
                     skipSpaces(src, skipSpaces(src, i + 1) + 1))
  ELSE <<>>

\* extractLabel(src, label): the capture of the first match, without quotes
\* and trimmed; <<>> when there is no match or the capture is empty
extractLabel(src, label) ==
  IF \A i \in DOMAIN src : labelMatchAt(src, i, label) = <<>> THEN <<>>
  ELSE trim(stripQuotes(
         labelMatchAt(src,
                      CHOOSE i \in DOMAIN src :
                        /\ labelMatchAt(src, i, label) # <<>>
                        /\ \A j \in 1..(i - 1) : labelMatchAt(src, j, label) = <<>>,
                      label)[1]))

\* colors after the dataset fallback: the column "colors" of the first record
\* is parsed when the property gave no colour and there is a record
withFallback(colors, context) ==
  IF colors = <<>> /\ context.records /\ context.datasetColors # <<>>
  THEN parseColors(context.datasetColors)
  ELSE colors

\* the defaults when there is neither a colour nor a label
withDefaults(colors, labeledProject, labeledTender) ==
  IF colors = <<>> /\ labeledProject = <<>> /\ labeledTender = <<>>
  THEN <<DefaultProject, DefaultTender>>
  ELSE colors

\* labeledProject || colors[0] || "#FFB74D"
projectColorFinal(colors, labeledProject) ==
  IF labeledProject # <<>> THEN labeledProject
  ELSE IF colors # <<>> THEN colors[1]
  ELSE DefaultProject

\* labeledTender || colors.find(c => c !== projectColorFinal) || "#90CAF9"
tenderColorFinal(colors, labeledTender, project) ==
  IF labeledTender # <<>> THEN labeledTender
  ELSE IF SelectSeq(colors, LAMBDA c : c # project) # <<>>
    THEN SelectSeq(colors, LAMBDA c : c # project)[1]
  ELSE DefaultTender

\* [projectColorFinal, tenderColorFinal, ...colors.filter(...)]
finalColors(colors, project, tender) ==
  <<project, tender>> \o SelectSeq(colors, LAMBDA c : c # project /\ c # tender)

\* the final colours once the positional colours and the labels are known
orderedColors(colors, labeledProject, labeledTender) ==
  finalColors(colors, projectColorFinal(colors, labeledProject),
              tenderColorFinal(colors, labeledTender,
                               projectColorFinal(colors, labeledProject)))

\* the colours updateView passes to the control.  context.colors is
\* context.parameters.colors.raw, context.datasetColors the formatted value
\* of the column "colors" of the first record, context.records whether the
\* dataset has a record
resolvedColors(context) ==
  orderedColors(withDefaults(withFallback(parseColors(context.colors), context),
                             extractLabel(context.colors, "project"),
                             extractLabel(context.colors, "tender")),
                extractLabel(context.colors, "project"),
                extractLabel(context.colors, "tender"))

\* what the maker wrote: the entries, each a colour with or without a label,
\* the form they are written in, and the place: the property "colors" of the
\* control or the column "colors" of the dataset
NothingWritten == [entries |-> <<>>, form |-> "comma", place |-> "property"]

\* a context without a colour configuration
NoColors ==
  [colors |-> <<>>, datasetColors |-> <<>>, records |-> FALSE,
   written |-> NothingWritten]

-----------------------------------------------------------------------------
(* index.ts and the component's lifecycle *)

\* what a handler did: the times it ran centerOnCurrentDate and the calls of
\* props.onEndDateChange it made
Event(op, centerCalls, changeCalls) ==
  [op |-> op, centerCalls |-> centerCalls, changeCalls |-> changeCalls]

\* the calls a handler of index.ts made: none
NoCalls == [setPageSize |-> 0, loadNextPage |-> 0, notifyOutputChanged |-> 0]

\* the GanttView instance after init(): selectedId, selectedUid and
\* selectedRowType undefined (<<>>), pagingInitialized false,
\* pagingSafetyCounter 0.  calls are the calls of the last handler,
\* hasNextPage what paging.hasNextPage() returned to it, totals the calls of
\* setPageSize and loadNextPage since init(), context the colour
\* configuration the last updateView found and colors the colours it passed
\* to the control.
HostInit ==
  [selectedId |-> <<>>, selectedUid |-> <<>>, selectedRowType |-> <<>>,
   pagingInitialized |-> FALSE, pagingSafetyCounter |-> 0,
   calls |-> NoCalls, hasNextPage |-> FALSE,
   totals |-> [setPageSize |-> 0, loadNextPage |-> 0],
   context |-> NoColors, colors |-> <<>>]

\* records.paging of a dataset without paging controls
Unpaged == [exists |-> FALSE, setPageSize |-> FALSE, hasNextPage |-> FALSE]

\* the instance as a handler finds it: no call made yet
Entered(h) == [h EXCEPT !.calls = NoCalls, !.hasNextPage = FALSE]

\* if (!this.pagingInitialized && typeof paging.setPageSize === 'function')
\*   { try { paging.setPageSize(500) } catch {}; this.pagingInitialized = true }
pageSizeSet(h, paging) ==
  IF ~h.pagingInitialized /\ paging.setPageSize
  THEN [h EXCEPT !.pagingInitialized = TRUE,
                 !.calls.setPageSize = @ + 1,
                 !.totals.setPageSize = @ + 1]
  ELSE h

\* the safety guard without its limit
pageAlwaysLoads(h) == TRUE

\* this.pagingSafetyCounter < 40
pageMayLoad(h) == h.pagingSafetyCounter < 40

\* if (paging.hasNextPage()) { if (this.pagingSafetyCounter < 40)
\*   { this.pagingSafetyCounter++; try { paging.loadNextPage() } catch {} } }
nextPageLoaded(h, paging) ==
  IF paging.hasNextPage /\ pageMayLoad(h)
  THEN [h EXCEPT !.hasNextPage = TRUE,
                 !.pagingSafetyCounter = @ + 1,
                 !.calls.loadNextPage = @ + 1,
                 !.totals.loadNextPage = @ + 1]
  ELSE [h EXCEPT !.hasNextPage = paging.hasNextPage]

\* the paging block of updateView: if (paging) { ... }
paged(h, paging) ==
  IF paging.exists THEN nextPageLoaded(pageSizeSet(Entered(h), paging), paging)
  ELSE Entered(h)

\* rowType of dataRows: trimmed, lower-cased and stripped of what is not a
\* letter; what is then none of the three types is "tender" when the name
\* contains "tender", else "unknown"
normalizeRowType(raw, nameHasTender) ==
  CASE raw \in {"project", "Project", " PROJECT "} -> "project"
    [] raw \in {"tender", "Tender", "TENDER-"} -> "tender"
    [] raw \in {"milestone", "Milestone", "Mile-Stone"} -> "milestone"
    [] OTHER -> IF nameHasTender THEN "tender" ELSE "unknown"

\* dataRows of updateView: a row per record of the dataset, id the record
\* id, sourceId the formatted value of the column "id" (0 the empty string,
\* Null none), parentId the formatted value or "" (0)
dataRows(records) ==
  [i \in DOMAIN records |->
     [id |-> records[i].recordId, sourceId |-> records[i].id,
      name |-> records[i].name,
      startDate |-> records[i].startDate, endDate |-> records[i].endDate,
      rowType |-> normalizeRowType(records[i].rowType, FALSE),
      parentId |-> IF records[i].parentId # Null THEN records[i].parentId ELSE 0,
      level |-> Null, milestones |-> <<>>]]

\* onSelect(uid, dataId, rowType) of the props updateView builds
onSelect(h, uid, dataId, rowType) ==
  [h EXCEPT !.selectedUid = <<uid>>,
            !.selectedId = IF dataId # Null /\ dataId # 0 THEN <<dataId>>
                           ELSE <<uid>>,
            !.selectedRowType = IF rowType # "" THEN <<rowType>> ELSE <<>>,
            !.calls.notifyOutputChanged = @ + 1]

\* getOutputs()
getOutputs(h) ==
  [selectedId |-> h.selectedId, selectedRowType |-> h.selectedRowType]

\* the colour block of updateView
coloured(h, context) ==
  [h EXCEPT !.context = context, !.colors = resolvedColors(context)]

\* the component as the first updateView, on a dataset with these paging
\* controls and this colour configuration, has React construct it with
\* props p
ConstructedWith(p, w, paging, context) ==
  /\ host = coloured(paged(HostInit, paging), context)
  /\ props = p
  /\ state = InitialState
  /\ nameResizeInfo = <<>>
  /\ lastCenterSignature = <<>>
  /\ measureTimers = NoTimers
  /\ listeners = {}
  /\ wrapper = w
  /\ phase = "constructed"
  /\ ordered = <<>>
  /\ lastEvent = Event("constructor", 0, <<>>)

\* the same without a colour configuration
ConstructedOn(p, w, paging) == ConstructedWith(p, w, paging, NoColors)

\* the same on a dataset without paging controls
Constructed(p, w) == ConstructedOn(p, w, Unpaged)

\* render(): GanttTable() calls orderGanttRows(), which writes level and
\* milestones into the row objects of props.data
Rendered(p, s) == orderGanttRows(p.data, s.sortField, s.sortDir)

\* componentDidUpdate with the props and state of the update and the
\* signature built from them: it centers when the signature changed
DidUpdate(op, p, s, signature, changeCalls) ==
  /\ props' = p
  /\ state' = s
  /\ lastCenterSignature' = <<signature>>
  /\ wrapper' = IF <<signature>> # lastCenterSignature
                THEN [wrapper EXCEPT
                        !.scrollLeft = centerOnCurrentDate(p, s, wrapper)]
                ELSE wrapper
  /\ lastEvent' = Event(op, IF <<signature>> # lastCenterSignature THEN 1 ELSE 0,
                        changeCalls)

\* the update once render() has returned r, the ordering and the row objects
\* it wrote
Updated(op, p, s, changeCalls) ==
  DidUpdate(op, p, s, buildCenterSignature(p, s), changeCalls)

AfterRender(op, r, pNew, sNew, changeCalls) ==
  /\ ordered' = r.result
  /\ Updated(op, [pNew EXCEPT !.data = r.data], sNew, changeCalls)

\* One React update with the new props and state: render(), then
\* componentDidUpdate.
UpdateCycle(op, pNew, sNew, changeCalls) ==
  AfterRender(op, Rendered(pNew, sNew), pNew, sNew, changeCalls)

\* the width updateContainerWidth measures: parentW || el.clientWidth || 0
MeasuredWidth(w) ==
  IF w.parentClientWidth # 0 THEN w.parentClientWidth ELSE w.clientWidth

Abs(x) == IF x < 0 THEN 0 - x ELSE x

\* the first render() returned r; componentDidMount measured no usable width
MountedUnmeasured(r) ==
  /\ props' = [props EXCEPT !.data = r.data]
  /\ ordered' = r.result
  /\ lastEvent' = Event("mount", 0, <<>>)
  /\ UNCHANGED <<state, lastCenterSignature, wrapper>>

\* the first render() returned r; componentDidMount measured the width mw:
\* updateContainerWidth, the listeners and the four timers
MountedWith(r, mw) ==
  /\ measureTimers' = Scheduled(Scheduled(Scheduled(measureTimers, "retry",
                                                    IF mw = 0 THEN 1 ELSE 0),
                                          "measure", 3),
                                "center", 1)
  /\ IF mw # 0 /\ Abs(mw - state.containerWidth) > 2
     THEN UpdateCycle("mount", [props EXCEPT !.data = r.data],
                      [state EXCEPT !.containerWidth = mw], <<>>)
     ELSE MountedUnmeasured(r)

\* React mounts the component: the first render(), then componentDidMount
Mount ==
  /\ phase = "constructed"
  /\ phase' = "mounted"
  /\ listeners' = listeners \cup {"resize", "ResizeObserver"}
  /\ UNCHANGED <<nameResizeInfo, host>>
  /\ MountedWith(Rendered(props, state), MeasuredWidth(wrapper))

\* the timeouts that stay pending when none is cleared
timersKept(timers) == timers

\* this.measureTimers.forEach((id) => window.clearTimeout(id)): none of the
\* timeouts stays pending
timersCleared(timers) == NoTimers

\* React unmounts the component: componentWillUnmount removes the resize
\* listener, disconnects the ResizeObserver and clears the timeouts
Unmount ==
  /\ phase = "mounted"
  /\ phase' = "unmounted"
  /\ listeners' = listeners \ {"resize", "ResizeObserver"}
  /\ measureTimers' = timersCleared(measureTimers)
  /\ lastEvent' = [op |-> "componentWillUnmount", centerCalls |-> 0,
                   changeCalls |-> <<>>, cleared |-> Pending(measureTimers)]
  /\ UNCHANGED <<props, state, lastCenterSignature, wrapper, ordered,
                 nameResizeInfo, host>>

\* React renders the component again with the props and state it has
Render ==
  /\ phase = "mounted"
  /\ UpdateCycle("render", props, state, <<>>)
  /\ UNCHANGED <<nameResizeInfo, measureTimers, listeners, phase, host>>

\* toggleSort(field) without the toggle of the direction: the field is
\* selected ascending also when it is the active one
toggleSortAscending(field) ==
  /\ phase = "mounted"
  /\ field = "name" \/ props.expandDetails
  /\ UpdateCycle("toggleSort", props,
                 [state EXCEPT !.sortField = field, !.sortDir = "asc"], <<>>)
  /\ UNCHANGED <<nameResizeInfo, measureTimers, listeners, phase, host>>

\* toggleSort(field); the start and end date headers exist only with
\* expandDetails
toggleSort(field) ==
  /\ phase = "mounted"
  /\ field = "name" \/ props.expandDetails
  /\ UpdateCycle("toggleSort", props,
                 IF state.sortField = field
                 THEN [state EXCEPT
                         !.sortDir = IF state.sortDir = "asc" THEN "desc"
                                     ELSE "asc"]
                 ELSE [state EXCEPT !.sortField = field, !.sortDir = "asc"],
                 <<>>)
  /\ UNCHANGED <<nameResizeInfo, measureTimers, listeners, phase, host>>

-----------------------------------------------------------------------------
(* The handlers of the interaction controller *)

\* a handler that calls neither setState nor centerOnCurrentDate
Quiet(op) ==
  /\ lastEvent' = Event(op, 0, <<>>)
  /\ UNCHANGED <<props, state, lastCenterSignature, wrapper, ordered>>

\* onNameResizeStart(e)
onNameResizeStart(clientX) ==
  /\ phase = "mounted"
  /\ nameResizeInfo' = <<[startX |-> clientX, startWidth |-> state.nameWidth]>>
  /\ listeners' = listeners \cup {"mousemove.name", "mouseup.name"}
  /\ Quiet("onNameResizeStart")
  /\ UNCHANGED <<measureTimers, phase, host>>

\* const MIN = 150
MIN == 150
\* const MAX = 700
MAX == 700

\* the clamp of onNameResizeMove without its upper bound
clampNameWidthNoMax(w) == IF w < MIN THEN MIN ELSE w

\* if (w < MIN) w = MIN; if (w > MAX) w = MAX;
clampNameWidth(w) == IF w < MIN THEN MIN ELSE IF w > MAX THEN MAX ELSE w

\* if (w !== this.state.nameWidth) this.setState({ nameWidth: w })
NameWidthSet(op, w) ==
  IF w # state.nameWidth
  THEN UpdateCycle(op, props, [state EXCEPT !.nameWidth = w], <<>>)
  ELSE Quiet(op)

\* onNameResizeMove(e), a mousemove of the window while the listener is on
onNameResizeMove(clientX) ==
  /\ phase = "mounted"
  /\ "mousemove.name" \in listeners
  /\ IF nameResizeInfo = <<>> THEN Quiet("onNameResizeMove")
     ELSE NameWidthSet("onNameResizeMove",
                       clampNameWidth(nameResizeInfo[1].startWidth
                                        + (clientX - nameResizeInfo[1].startX)))
  /\ UNCHANGED <<nameResizeInfo, measureTimers, listeners, phase, host>>

\* onNameResizeEnd(), a mouseup of the window while the listener is on
onNameResizeEnd ==
  /\ phase = "mounted"
  /\ "mouseup.name" \in listeners
  /\ Pending(measureTimers) < MaxTimers
  /\ nameResizeInfo' = <<>>
  /\ listeners' = listeners \ {"mousemove.name", "mouseup.name"}
  /\ measureTimers' = Scheduled(measureTimers, "center", 1)
  /\ Quiet("onNameResizeEnd")
  /\ UNCHANGED <<phase, host>>

\* if (w < 150) w = 150; if (w > 700) w = 700; in the key handler
clampKeyWidth(w) == IF w < 150 THEN 150 ELSE IF w > 700 THEN 700 ELSE w

\* onKeyDown of the resize handle with ArrowLeft or ArrowRight: setState, whose
\* callback schedules centerOnCurrentDate
onResizeKeyDown(key) ==
  /\ phase = "mounted"
  /\ Pending(measureTimers) < MaxTimers
  /\ UpdateCycle("onResizeKeyDown", props,
                 [state EXCEPT
                    !.nameWidth = clampKeyWidth(state.nameWidth
                                    + (IF key = "ArrowLeft" THEN -15 ELSE 15))],
                 <<>>)
  /\ measureTimers' = Scheduled(measureTimers, "center", 1)
  /\ UNCHANGED <<nameResizeInfo, listeners, phase, host>>

\* if (w && Math.abs(w - this.state.containerWidth) > 2) setState({containerWidth: w})
ContainerWidthSet(op, w) ==
  IF w # 0 /\ Abs(w - state.containerWidth) > 2
  THEN UpdateCycle(op, props, [state EXCEPT !.containerWidth = w], <<>>)
  ELSE Quiet(op)

\* updateContainerWidth(), leaving the timeouts timers pending besides the
\* retry it may schedule
updateContainerWidth(op, timers) ==
  /\ ContainerWidthSet(op, MeasuredWidth(wrapper))
  /\ measureTimers' = Scheduled(timers, "retry",
                                IF MeasuredWidth(wrapper) = 0 THEN 1 ELSE 0)

\* the resize event of the window
onWindowResize ==
  /\ phase = "mounted"
  /\ "resize" \in listeners
  /\ Pending(measureTimers) < MaxTimers
  /\ updateContainerWidth("onWindowResize", measureTimers)
  /\ UNCHANGED <<nameResizeInfo, listeners, phase, host>>

\* a timeout whose callback is updateContainerWidth runs; after the unmount
\* wrapperRef.current is null and the callback does nothing
MeasureTimer ==
  /\ measureTimers["measure"] > 0
  /\ IF phase = "mounted"
     THEN updateContainerWidth("MeasureTimer", Fired(measureTimers, "measure"))
     ELSE /\ Quiet("MeasureTimer")
          /\ measureTimers' = Fired(measureTimers, "measure")
  /\ UNCHANGED <<nameResizeInfo, listeners, phase, host>>

\* the retry closure runs: const ww = el.clientWidth || 0; the element it
\* holds has no width once it is removed from the document
RetryTimer ==
  /\ measureTimers["retry"] > 0
  /\ ContainerWidthSet("RetryTimer",
                       IF phase = "mounted" THEN wrapper.clientWidth ELSE 0)
  /\ measureTimers' = Fired(measureTimers, "retry")
  /\ UNCHANGED <<nameResizeInfo, listeners, phase, host>>

\* a timeout whose callback is () => this.centerOnCurrentDate() runs; after
\* the unmount wrapperRef.current is null and centerOnCurrentDate returns
CenterTimer ==
  /\ measureTimers["center"] > 0
  /\ measureTimers' = Fired(measureTimers, "center")
  /\ wrapper' = IF phase = "mounted"
                THEN [wrapper EXCEPT
                        !.scrollLeft = centerOnCurrentDate(props, state, wrapper)]
                ELSE wrapper
  /\ lastEvent' = Event("CenterTimer", 1, <<>>)
  /\ UNCHANGED <<props, state, lastCenterSignature, ordered, nameResizeInfo,
                 listeners, phase, host>>

\* if (w && w !== this.state.containerWidth) this.setState({ containerWidth: w })
ObservedWidthSet(op, w) ==
  IF w # 0 /\ w # state.containerWidth
  THEN UpdateCycle(op, props, [state EXCEPT !.containerWidth = w], <<>>)
  ELSE Quiet(op)

\* the ResizeObserver callback: the wrapper's content width, else clientWidth
onResizeObserved ==
  /\ phase = "mounted"
  /\ "ResizeObserver" \in listeners
  /\ ObservedWidthSet("onResizeObserved", wrapper.clientWidth)
  /\ UNCHANGED <<nameResizeInfo, measureTimers, listeners, phase, host>>

\* setZoom(z) without the callback of its setState
setZoomUnscheduled(z) ==
  /\ phase = "mounted"
  /\ state.zoomLevel # z
  /\ Pending(measureTimers) + 4 <= MaxTimers
  /\ UpdateCycle("setZoom", props, [state EXCEPT !.zoomLevel = z], <<>>)
  /\ UNCHANGED <<nameResizeInfo, measureTimers, listeners, phase, host>>

\* setZoom(z): setState, whose callback schedules three measurements and a
\* centering
setZoom(z) ==
  /\ phase = "mounted"
  /\ state.zoomLevel # z
  /\ Pending(measureTimers) + 4 <= MaxTimers
  /\ UpdateCycle("setZoom", props, [state EXCEPT !.zoomLevel = z], <<>>)
  /\ measureTimers' = Scheduled(Scheduled(measureTimers, "measure", 3),
                                "center", 1)
  /\ UNCHANGED <<nameResizeInfo, listeners, phase, host>>

\* setZoom(z) when z is the active level: the condition of line 549 fails
\* and the handler does nothing
setZoomActive(z) ==
  /\ phase = "mounted"
  /\ state.zoomLevel = z
  /\ Quiet("setZoom")
  /\ UNCHANGED <<nameResizeInfo, measureTimers, listeners, phase, host>>

\* the host calls updateView on a dataset with these paging controls and
\* this colour configuration, and React renders the element it returns,
\* whose props are pNew
hostUpdateView(pNew, paging, context) ==
  /\ phase = "mounted"
  /\ host' = coloured(paged(host, paging), context)
  /\ UpdateCycle("updateView", pNew, state, <<>>)
  /\ UNCHANGED <<nameResizeInfo, measureTimers, listeners, phase>>

\* the same without a colour configuration
pagedUpdateView(pNew, paging) == hostUpdateView(pNew, paging, NoColors)

\* the same on a dataset without paging controls
updateView(pNew) == pagedUpdateView(pNew, Unpaged)

\* the row object with this id
RowOf(p, id) == p.data[RowIndex(p.data, id)]

\* a click in a row of the table body: on the name cell, whose onClick runs
\* and lets the click reach the onClick of the row; on the bar, whose onClick
\* stops the propagation; or elsewhere in the row.  Each onClick calls
\* props.onSelect(row.id, row.sourceId, row.rowType).
Selected(h, row) == onSelect(h, row.id, row.sourceId, row.rowType)

rowClick(rowId, target) ==
  /\ phase = "mounted"
  /\ \E i \in DOMAIN ordered : ordered[i] = rowId
  /\ target = "bar"
       => BarOf(props, state, wrapper, phase, RowOf(props, rowId)).shown
  /\ host' = IF target = "name"
             THEN Selected(Selected(Entered(host), RowOf(props, rowId)),
                           RowOf(props, rowId))
             ELSE Selected(Entered(host), RowOf(props, rowId))
  /\ lastEvent' = [op |-> "rowClick", centerCalls |-> 0, changeCalls |-> <<>>,
                   rowId |-> rowId, target |-> target]
  /\ UNCHANGED <<props, state, lastCenterSignature, wrapper, ordered,
                 nameResizeInfo, measureTimers, listeners, phase>>

\* the browser lays the page out anew: the wrapper and its parent get widths
Layout(parentClientWidth, clientWidth) ==
  /\ phase = "mounted"
  /\ wrapper' = [wrapper EXCEPT !.parentClientWidth = parentClientWidth,
                                !.clientWidth = clientWidth]
  /\ lastEvent' = Event("Layout", 0, <<>>)
  /\ UNCHANGED <<props, state, lastCenterSignature, ordered, nameResizeInfo,
                 measureTimers, listeners, phase, host>>

\* the user scrolls the wrapper, as far as the table overflows it
Scroll(x) ==
  /\ phase = "mounted"
  /\ x >= 0
  /\ x <= tableWidthPxOf(props, state, wrapper, phase) - wrapper.clientWidth
  /\ wrapper' = [wrapper EXCEPT !.scrollLeft = x]
  /\ lastEvent' = Event("Scroll", 0, <<>>)
  /\ UNCHANGED <<props, state, lastCenterSignature, ordered, nameResizeInfo,
                 measureTimers, listeners, phase, host>>

-----------------------------------------------------------------------------
(* The end-date drag *)

\* cell.clientWidth of the row's timeline cell, which spans the segments
cellClientWidth(p, s, w, ph) == SumSeq(perSegWidths(p, s, w, ph))

\* this.setState({ editingEnd: {...} }) with the arguments the handle's
\* onMouseDown passes: leftPct, liveWidth, start, end
EditStarted(rowId, clientX, bar, b, containerPx) ==
  UpdateCycle("startBarEndEdit", props,
              [state EXCEPT
                 !.editingEnd = <<[rowId |-> rowId, startX |-> clientX,
                                   rowLeftPct |-> bar.leftPct,
                                   startWidthPct |-> bar.liveWidth,
                                   liveWidthPct |-> bar.liveWidth,
                                   containerPx |-> containerPx,
                                   winStart |-> b.start, winEnd |-> b.end]>>],
              <<>>)

\* the flag test without the flag: editing is never disabled
editingNeverDisabled(p) == FALSE

\* !this.props.adjustableEndDate, the test of startBarEndEdit and of
\* onGlobalMouseUp
editingDisabled(p) == ~p.adjustableEndDate

\* a press that installs the mousemove listener alone
barListenersWithoutMouseUp == {"mousemove.bar"}

\* window.addEventListener("mousemove", this.onBarDragMove) and
\* window.addEventListener("mouseup", this.onGlobalMouseUp)
barListeners == {"mousemove.bar", "mouseup.bar"}

\* startBarEndEdit(e, rowId, rowLeftPct, rowWidthPct, winStart, winEnd) from
\* the handle of a bar that is drawn
startBarEndEdit(rowId, clientX) ==
  /\ phase = "mounted"
  /\ \E i \in DOMAIN ordered : ordered[i] = rowId
  /\ BarOf(props, state, wrapper, phase, RowOf(props, rowId)).shown
  /\ IF editingDisabled(props)
     THEN /\ Quiet("startBarEndEdit")
          /\ UNCHANGED listeners
     ELSE /\ EditStarted(rowId, clientX,
                         BarOf(props, state, wrapper, phase, RowOf(props, rowId)),
                         getTimelineBounds(props),
                         cellClientWidth(props, state, wrapper, phase))
          /\ listeners' = listeners \cup barListeners
  /\ UNCHANGED <<nameResizeInfo, measureTimers, phase, host>>

\* if (liveWidthPct > 100 - edit.rowLeftPct) liveWidthPct = 100 - edit.rowLeftPct
clampToAxisEnd(edit, liveWidthPct) ==
  IF liveWidthPct > Fixed(100) - edit.rowLeftPct
  THEN Fixed(100) - edit.rowLeftPct
  ELSE liveWidthPct

\* liveWidthPct of onBarDragMove after its two clamps, the lower one first
clampLiveWidth(edit, liveWidthPct) ==
  clampToAxisEnd(edit, IF liveWidthPct < Fixed(1) THEN Fixed(1) ELSE liveWidthPct)

\* if (liveWidthPct !== edit.liveWidthPct) this.setState({ editingEnd: {...} })
LiveWidthSet(edit, liveWidthPct) ==
  IF liveWidthPct # edit.liveWidthPct
  THEN UpdateCycle("onBarDragMove", props,
                   [state EXCEPT
                      !.editingEnd = <<[edit EXCEPT !.liveWidthPct = liveWidthPct]>>],
                   <<>>)
  ELSE Quiet("onBarDragMove")

\* edit.startWidthPct + (deltaPx / edit.containerPx) * 100
draggedWidth(edit, clientX) ==
  edit.startWidthPct + RoundDiv((clientX - edit.startX) * Fixed(100),
                                edit.containerPx)

\* onBarDragMove(e), a mousemove of the window while the listener is on
onBarDragMove(clientX) ==
  /\ phase = "mounted"
  /\ "mousemove.bar" \in listeners
  /\ IF state.editingEnd = <<>> THEN Quiet("onBarDragMove")
     ELSE LiveWidthSet(state.editingEnd[1],
                       clampLiveWidth(state.editingEnd[1],
                                      draggedWidth(state.editingEnd[1], clientX)))
  /\ UNCHANGED <<nameResizeInfo, measureTimers, listeners, phase, host>>

\* new Date(Number(start) + (rightPct / 100) * totalMs): the Date constructor
\* drops the fraction of the time value
newEndOf(edit) ==
  edit.winStart
    + FloorDiv((edit.rowLeftPct + edit.liveWidthPct) * (edit.winEnd - edit.winStart),
               Fixed(100))

\* the release with editing enabled: the override is stored, then
\* this.props.onEndDateChange && this.props.onEndDateChange(edit.rowId, newEnd)
EditCommitted(rowId, newEnd) ==
  UpdateCycle("onGlobalMouseUp", props,
              [state EXCEPT !.editingEnd = <<>>,
                            !.endDateOverrides = (rowId :> newEnd) @@ @],
              IF props.onEndDateChange THEN <<<<rowId, newEnd>>>> ELSE <<>>)

\* onGlobalMouseUp(), a mouseup of the window while the listener is on
onGlobalMouseUp ==
  /\ phase = "mounted"
  /\ "mouseup.bar" \in listeners
  /\ IF state.editingEnd = <<>>
     THEN /\ Quiet("onGlobalMouseUp")
          /\ UNCHANGED listeners
     ELSE /\ listeners' = listeners \ {"mousemove.bar", "mouseup.bar"}
          /\ IF editingDisabled(props)
             THEN UpdateCycle("onGlobalMouseUp", props,
                              [state EXCEPT !.editingEnd = <<>>], <<>>)
             ELSE EditCommitted(state.editingEnd[1].rowId,
                                newEndOf(state.editingEnd[1]))
  /\ UNCHANGED <<nameResizeInfo, measureTimers, phase, host>>

-----------------------------------------------------------------------------
(* The window's pointer events after the unmount: componentWillUnmount
   removes none of the mousemove and mouseup listeners, and setState of an
   unmounted component changes nothing *)

\* onNameResizeMove(e) after the unmount: its setState has no effect
onNameResizeMoveUnmounted(clientX) ==
  /\ phase = "unmounted"
  /\ "mousemove.name" \in listeners
  /\ Quiet("onNameResizeMove")
  /\ UNCHANGED <<nameResizeInfo, measureTimers, listeners, phase, host>>

\* onNameResizeEnd() after the unmount: the listeners are removed and the
\* timeout of centerOnCurrentDate is pushed
onNameResizeEndUnmounted ==
  /\ phase = "unmounted"
  /\ "mouseup.name" \in listeners
  /\ Pending(measureTimers) < MaxTimers
  /\ nameResizeInfo' = <<>>
  /\ listeners' = listeners \ {"mousemove.name", "mouseup.name"}
  /\ measureTimers' = Scheduled(measureTimers, "center", 1)
  /\ Quiet("onNameResizeEnd")
  /\ UNCHANGED <<phase, host>>

\* onBarDragMove(e) after the unmount: its setState has no effect
onBarDragMoveUnmounted(clientX) ==
  /\ phase = "unmounted"
  /\ "mousemove.bar" \in listeners
  /\ Quiet("onBarDragMove")
  /\ UNCHANGED <<nameResizeInfo, measureTimers, listeners, phase, host>>

\* onGlobalMouseUp() after the unmount: this.state.editingEnd is still the
\* edit of the press; the setState has no effect, the listeners are removed
\* and, editing being enabled, props.onEndDateChange is called
onGlobalMouseUpUnmounted ==
  /\ phase = "unmounted"
  /\ "mouseup.bar" \in listeners
  /\ IF state.editingEnd = <<>>
     THEN /\ Quiet("onGlobalMouseUp")
          /\ UNCHANGED listeners
     ELSE /\ listeners' = listeners \ {"mousemove.bar", "mouseup.bar"}
          /\ lastEvent' = Event("onGlobalMouseUp", 0,
                                IF ~editingDisabled(props) /\ props.onEndDateChange
                                THEN <<<<state.editingEnd[1].rowId,
                                         newEndOf(state.editingEnd[1])>>>>
                                ELSE <<>>)
          /\ UNCHANGED <<props, state, lastCenterSignature, wrapper, ordered>>
  /\ UNCHANGED <<nameResizeInfo, measureTimers, phase, host>>

-----------------------------------------------------------------------------
(* The hierarchy orderer on bounded datasets *)

\* a row as index.ts builds it: level null, no milestones
NewRow(id, name, rowType, startDate, endDate, parentId) ==
  [id |-> id, name |-> name, rowType |-> rowType, startDate |-> startDate,
   endDate |-> endDate, parentId |-> parentId, level |-> Null,
   milestones |-> <<>>]

\* What row i of an ordering dataset may be, apart from its parentId.  The
\* dates differ from row to row, a later row having the earlier start and the
\* later end, so that neither order is the order of the ids.
OrderFlavours(i) ==
  { [name |-> "a", rowType |-> "project",
     startDate |-> DateOf(2024, 2, 10 - i), endDate |-> Null],
    [name |-> "B", rowType |-> "tender",
     startDate |-> Null, endDate |-> DateOf(2024, 8, 20 + i)],
    [name |-> "a", rowType |-> "milestone",
     startDate |-> DateOf(2024, 3, 15), endDate |-> DateOf(2024, 3, 15)],
    [name |-> "val", rowType |-> "project",
     startDate |-> Null, endDate |-> Null] }

\* the datasets of n rows with ids 1..n; a parentId is "" (0), the
\* id of another row, or an id no row has (n + 1)
OrderDatasets(n) ==
  { [i \in 1..n |->
       NewRow(i, fl[i].name, fl[i].rowType, fl[i].startDate, fl[i].endDate,
              par[i])] :
    fl \in { f \in [1..n -> UNION {OrderFlavours(i) : i \in 1..n}] :
             \A i \in 1..n : f[i] \in OrderFlavours(i) },
    par \in { f \in [1..n -> 0..(n + 1)] :
              \A i \in 1..n : f[i] # i } }

OrderProps(data) ==
  [data |-> data, ganttStartDate |-> DateOf(2024, 0, 1),
   ganttEndDate |-> DateOf(2024, 11, 31), currentDate |-> DateOf(2024, 5, 15),
   expandDetails |-> TRUE, adjustableEndDate |-> FALSE, columnViewCount |-> 0,
   onEndDateChange |-> FALSE]

Dom(parentClientWidth, clientWidth) ==
  [parentClientWidth |-> parentClientWidth, clientWidth |-> clientWidth,
   scrollLeft |-> 0]

InitOrder ==
  \E data \in OrderDatasets(MaxRows) : Constructed(OrderProps(data), Dom(1000, 1000))

NextOrder ==
  \/ Mount
  \/ Render
  \/ \E field \in {"name", "startDate", "endDate"} : toggleSort(field)

SpecOrder == InitOrder /\ [][NextOrder]_vars

-----------------------------------------------------------------------------
(* Claims about the hierarchy orderer *)

\* the row object with this id
RowById(id) == props.data[RowIndex(props.data, id)]

\* the position of a returned row in the returned sequence
PosOf(id) == CHOOSE i \in DOMAIN ordered : ordered[i] = id

Returned == {ordered[i] : i \in DOMAIN ordered}

\* the date the active sort field reads
SortDate(r) == IF state.sortField = "startDate" THEN r.startDate ELSE r.endDate

\* two returned rows with the same parent
SiblingPairs ==
  {pr \in Returned \X Returned :
     pr[1] # pr[2] /\ RowById(pr[1]).parentId = RowById(pr[2]).parentId}

DatedInDirection(dir) ==
  \A pr \in SiblingPairs :
    LET a == RowById(pr[1])
        b == RowById(pr[2])
    IN  /\ (SortDate(a) # Null /\ SortDate(b) = Null)
             => PosOf(a.id) < PosOf(b.id)
        /\ (SortDate(a) # Null /\ SortDate(b) # Null /\ PosOf(a.id) < PosOf(b.id))
             => IF dir = "asc" THEN SortDate(a) <= SortDate(b)
                ELSE SortDate(a) >= SortDate(b)

\* C1: sorted by startDate or endDate, in either direction, the siblings
\* without that date come after all siblings with it, and the dated siblings
\* are in the order of their dates in the chosen direction.
C1_UndatedLastBothDirections ==
  (phase = "mounted" /\ state.sortField \in {"startDate", "endDate"})
    => DatedInDirection(state.sortDir)

\* the part of C1 the code keeps: the ascending direction
C1_AscendingHolds ==
  (phase = "mounted" /\ state.sortField \in {"startDate", "endDate"}
     /\ state.sortDir = "asc")
    => DatedInDirection("asc")

\* the times id occurs in a milestones list
Occurrences(list, id) == Cardinality({k \in DOMAIN list : list[k] = id})

MilestoneIds == {props.data[i].id : i \in {k \in DOMAIN props.data : IsMilestone(props.data[k])}}

ExistingTaskIds == {props.data[i].id : i \in {k \in DOMAIN props.data : ~IsMilestone(props.data[k])}}

\* C2 as stated: a milestone is never returned; if its parentId is the id of
\* an existing non-milestone row it is exactly once in that row's milestones
\* list and that row is returned; otherwise it is in no returned row's list.
C2_MilestoneUnderExistingParent ==
  phase = "mounted" =>
    \A m \in MilestoneIds :
      /\ m \notin Returned
      /\ IF RowById(m).parentId \in ExistingTaskIds
         THEN /\ Occurrences(RowById(RowById(m).parentId).milestones, m) = 1
              /\ RowById(m).parentId \in Returned
         ELSE \A q \in Returned : Occurrences(RowById(q).milestones, m) = 0

\* C2 as amended: a milestone is never returned; a returned row lists it,
\* exactly once, when the row is the milestone's parent and the milestone is
\* not the placeholder row, and no other returned row lists it.
C2_MilestoneUnderReturnedParent ==
  phase = "mounted" =>
    \A m \in MilestoneIds :
      /\ m \notin Returned
      /\ \A q \in Returned :
           Occurrences(RowById(q).milestones, m)
             = IF q = RowById(m).parentId /\ RowById(m).name # "val"
               THEN 1 ELSE 0

\* a milestone attached to its returned parent, after a second render
C2_Witness ==
  /\ phase = "mounted"
  /\ lastEvent.op = "render"
  /\ \E m \in MilestoneIds :
       /\ RowById(m).parentId \in Returned
       /\ Occurrences(RowById(RowById(m).parentId).milestones, m) = 1

\* the input fields of the dataset: what the host delivered
InputOf(data) ==
  [i \in DOMAIN data |->
     [id |-> data[i].id, name |-> data[i].name, rowType |-> data[i].rowType,
      startDate |-> data[i].startDate, endDate |-> data[i].endDate,
      parentId |-> data[i].parentId]]

\* the returned rows with their level and milestones
ViewOf(data, result) ==
  [i \in DOMAIN result |->
     LET r == data[RowIndex(data, result[i])]
     IN  <<r.id, r.level, r.milestones>>]

\* C8: a call of orderGanttRows on the dataset and sort settings of the call
\* before it returns the same rows in the same order, each with the same
\* level and the same milestones list.
C8_OrderingStable ==
  [][(/\ phase = "mounted" /\ phase' = "mounted"
      /\ InputOf(props'.data) = InputOf(props.data)
      /\ state'.sortField = state.sortField
      /\ state'.sortDir = state.sortDir)
       => ViewOf(props'.data, ordered') = ViewOf(props.data, ordered)]_vars

\* a repeated call whose result has a child row and a milestone
C8_Witness ==
  /\ phase = "mounted"
  /\ lastEvent.op = "render"
  /\ \E q \in Returned : RowById(q).level = 1
  /\ \E q \in Returned : RowById(q).milestones # <<>>

\* the ids of the rows that are no milestone, do not carry the placeholder
\* name, and have their parentId in S
TaskKids(S) ==
  {props.data[i].id :
     i \in {k \in DOMAIN props.data :
              /\ props.data[k].name # "val"
              /\ ~IsMilestone(props.data[k])
              /\ props.data[k].parentId \in S}}

\* S and the rows reached from it in n steps from parent to child
RECURSIVE WithDescendants(_, _)
WithDescendants(S, n) ==
  IF n = 0 THEN S ELSE WithDescendants(S \cup TaskKids(S), n - 1)

\* the rows reachable from a root: a root has the empty parentId
Reachable == WithDescendants(TaskKids({0}), MaxRows)

\* a returned row and the rows below it
Subtree(q) == WithDescendants({q}, MaxRows)

\* each row is returned once, and the rows below a returned row follow it
\* without a gap
PreOrder ==
  /\ Len(ordered) = Cardinality(Returned)
  /\ \A q \in Returned :
       {PosOf(x) : x \in Subtree(q)}
         = PosOf(q)..(PosOf(q) + Cardinality(Subtree(q)) - 1)

\* a root has level 0, every other returned row the level of its parent
\* plus 1
LevelsByDepth ==
  \A q \in Returned :
    RowById(q).level = IF RowById(q).parentId = 0 THEN 0
                       ELSE RowById(RowById(q).parentId).level + 1

\* the rows that never appear
NeverReturned ==
  \A i \in DOMAIN props.data :
    (\/ props.data[i].parentId
          \notin {0} \cup {props.data[k].id : k \in DOMAIN props.data}
     \/ props.data[i].name = "val"
     \/ IsMilestone(props.data[i]))
      => props.data[i].id \notin Returned

\* C19: orderGanttRows returns exactly the non-milestone rows reachable from
\* a root (empty parentId, no milestone) through non-milestone parents, the
\* rows with the placeholder name being left out of the dataset first; in
\* depth-first pre-order, each parent before its children and each subtree
\* contiguous; a root with level 0 and every other row one level below its
\* parent; and no row with an unmatched parentId, no placeholder row and no
\* milestone is returned.
C19_ReachableRowsInPreOrder ==
  phase = "mounted" =>
    /\ Returned = Reachable
    /\ PreOrder
    /\ LevelsByDepth
    /\ NeverReturned

\* sorted by a date, a root with a child and a grandchild returned, or with
\* a child returned and a row of an unmatched parentId dropped
C19_Witness ==
  /\ phase = "mounted"
  /\ state.sortField # "name"
  /\ \E q \in Returned : RowById(q).level = 1
  /\ \/ \E q \in Returned : RowById(q).level = 2
     \/ \E i \in DOMAIN props.data :
          /\ props.data[i].parentId = MaxRows + 1
          /\ ~IsMilestone(props.data[i])
          /\ props.data[i].name # "val"

-----------------------------------------------------------------------------
(* The timeline geometry on bounded datasets and container widths *)

\* the dates a row of a geometry dataset may carry
GeomDates == {DateOf(2024, 6, 15), DateOf(2025, 0, 20), DateOf(2026, 5, 5)}

\* one project row with any of the dates, or none, as its start and its end;
\* or a project row with a milestone of a single instant
GeomDatasets ==
  { <<NewRow(1, "a", "project", sd, ed, 0)>> :
      sd \in GeomDates \cup {Null}, ed \in GeomDates \cup {Null} }
    \cup { <<NewRow(1, "a", "project", DateOf(2024, 6, 15), DateOf(2026, 0, 2), 0),
             NewRow(2, "b", "milestone", DateOf(2025, 0, 20),
                    DateOf(2025, 0, 20), 1)>> }

GeomProps(data, expandDetails) ==
  [data |-> data, ganttStartDate |-> DateOf(2024, 2, 1),
   ganttEndDate |-> DateOf(2024, 11, 31), currentDate |-> DateOf(2025, 5, 15),
   expandDetails |-> expandDetails, adjustableEndDate |-> FALSE,
   columnViewCount |-> 0, onEndDateChange |-> FALSE]

\* the widths the page may give the wrapper's parent and the wrapper
GeomLayouts == {<<0, 0>>, <<0, 460>>, <<460, 460>>, <<1000, 1000>>}

InitGeom ==
  \E data \in GeomDatasets, expandDetails \in BOOLEAN, l \in GeomLayouts :
    Constructed(GeomProps(data, expandDetails), Dom(l[1], l[2]))

NextGeom ==
  \/ Mount
  \/ Render
  \/ \E l \in GeomLayouts : Layout(l[1], l[2])
  \/ onWindowResize
  \/ onResizeObserved

SpecGeom == InitGeom /\ [][NextGeom]_vars

-----------------------------------------------------------------------------
(* Claims about the timeline geometry *)

\* C3: in year zoom the per-segment pixel widths GanttTable computes sum to
\* the available axis width, the container width less the sticky columns'
\* width and at least 0.
C3_YearWidthsFillAxis ==
  (phase = "mounted" /\ state.zoomLevel = "year")
    => SumSeq(perSegWidths(props, state, wrapper, phase))
         = availablePxOf(props, state, wrapper, phase)

\* the dates calculateStartX is probed with: every sixtieth day, and the
\* ticks at and next to the bounds b
AxisProbes(b) ==
  ({t \in 0..Horizon : t % (60 * TicksPerDay) = 0}
     \cup {b.start - 1, b.start, b.start + 1, b.end - 1, b.end, b.end + 1})
    \cap (0..Horizon)

\* the three parts of C7 on the bounds b
StartXOnAxis(b) ==
  /\ StartXIn(b, Null) = OffAxis
  /\ \A d \in AxisProbes(b) :
       /\ d <= b.start => StartXIn(b, d) = 0
       /\ d > b.end => StartXIn(b, d) = OffAxis
  /\ \A d1, d2 \in AxisProbes(b) :
       (b.start <= d1 /\ d1 <= d2 /\ d2 <= b.end)
         => /\ 0 <= StartXIn(b, d1)
            /\ StartXIn(b, d1) <= StartXIn(b, d2)
            /\ StartXIn(b, d2) <= Fixed(100)

\* C7: calculateStartX returns 0 for a date at or before the axis start, -1
\* for a date after the axis end and for null, and between the two it is
\* non-decreasing with values in [0, 100], whatever the dataset and the
\* host's date range.
C7_StartXOnEveryAxis == StartXOnAxis(getTimelineBounds(props))

\* the part of C7 the code keeps: the same on bounds with start <= end
StartXOnOrderedAxis(b) == b.start <= b.end => StartXOnAxis(b)
C7_OrderedAxisHolds == StartXOnOrderedAxis(getTimelineBounds(props))

\* two percentages that differ by no more than the rounding of the last digit
Near(x, y) == Abs(x - y) <= 1

\* what yearRangeToPct returns for these dates on the rendered pixel table
TableRange(startDate, endDate) ==
  yearRangeToPct(yearSegMeta(props, state, wrapper, phase),
                 getTimelineBounds(props).end, startDate, endDate)

\* a bar or marker that is drawn has the left and width yearRangeToPct
\* returns for its dates
FromTable(bar, startDate, endDate) ==
  bar.shown
    => /\ TableRange(startDate, endDate) # <<>>
       /\ bar.leftPct = TableRange(startDate, endDate)[1].left
       /\ bar.widthPct = TableRange(startDate, endDate)[1].width

\* a bar or marker over a range that is not empty, when drawn, comes from the
\* pixel table
RangeFromTable(bar, startDate, endDate) ==
  (startDate # Null /\ endDate # Null /\ startDate < endDate)
    => FromTable(bar, startDate, endDate)

\* the bars of the rows and the markers of their milestones are drawn so
BarsDrawn(drawn(_, _, _)) ==
  \A i \in DOMAIN ordered :
    /\ drawn(BarOf(props, state, wrapper, phase, RowOf(props, ordered[i])),
             RowOf(props, ordered[i]).startDate,
             effectiveEndOf(state, RowOf(props, ordered[i])))
    /\ \A k \in DOMAIN RowOf(props, ordered[i]).milestones :
         drawn(MarkerOf(props, state, wrapper, phase,
                        RowOf(props, RowOf(props, ordered[i]).milestones[k])),
               RowOf(props, RowOf(props, ordered[i]).milestones[k]).startDate,
               RowOf(props, RowOf(props, ordered[i]).milestones[k]).endDate)

\* the percentage centerOnCurrentDate multiplies the timeline width with
CenterTargetPct ==
  CenterPct(getTimelineBounds(props), props.currentDate,
            calculateStartX(props, props.currentDate))

\* the same from the position of the current-date line
TableTargetPct ==
  CenterPct(getTimelineBounds(props), props.currentDate,
            currentDateX(props, state, wrapper, phase))

\* C17: in year zoom every date-to-position conversion (the left and width
\* of the row bars, the milestone markers including those of a single
\* instant, the current-date line and the auto-centering target) is computed
\* from the cumulative per-segment pixel table, never from the linear
\* formula.
C17_YearPositionsFromTable ==
  (phase = "mounted" /\ state.zoomLevel = "year")
    => /\ BarsDrawn(FromTable)
       /\ Near(CenterTargetPct, TableTargetPct)

\* what the code keeps of C17 on an axis whose start is not after its end:
\* the bars and markers of ranges that are not empty
C17_RangesFromTable ==
  (phase = "mounted" /\ state.zoomLevel = "year"
     /\ getTimelineBounds(props).start <= getTimelineBounds(props).end)
    => BarsDrawn(RangeFromTable)

\* the dates calculateEndWidth is probed with on the bounds b: the probes of
\* the axis, the dates of the rows, and null
WidthProbes(p, b) ==
  AxisProbes(b) \cup StartDates(p.data) \cup EndDates(p.data) \cup {Null}

\* the range ends before the axis starts or starts after the axis ends
MissesAxis(b, startDate, endDate) == endDate < b.start \/ startDate > b.end

\* the three cases of C18 for one call on the bounds b
EndWidthAsClaimed(b, startDate, endDate) ==
  IF startDate = Null \/ endDate = Null \/ MissesAxis(b, startDate, endDate)
  THEN EndWidthIn(b, startDate, endDate) = OffAxis
  ELSE IF Min({endDate, b.end}) <= Max({startDate, b.start})
  THEN EndWidthIn(b, startDate, endDate) = Fixed(2)
  ELSE /\ EndWidthIn(b, startDate, endDate)
            = RoundDiv((Min({endDate, b.end}) - Max({startDate, b.start}))
                         * Fixed(100),
                       b.end - b.start)
       /\ 0 < EndWidthIn(b, startDate, endDate)
       /\ EndWidthIn(b, startDate, endDate) <= Fixed(100)

\* C18: calculateEndWidth returns -1 when a date is null or the range lies
\* off the axis, 2 when the range clipped to the axis is empty or inverted,
\* and otherwise (clipEnd - clipStart) / (axisEnd - axisStart) * 100, a value
\* in (0, 100].
C18_EndWidthThreeCases ==
  \A b \in {getTimelineBounds(props)} :
    \A startDate, endDate \in WidthProbes(props, b) :
      EndWidthAsClaimed(b, startDate, endDate)

\* rendered with a row whose width is the proportional one and a milestone
\* of a single instant, whose width is the sentinel
C18_Witness ==
  /\ lastEvent.op = "render"
  /\ \E i, k \in DOMAIN props.data :
       /\ props.data[i].startDate # Null
       /\ props.data[i].endDate # Null
       /\ props.data[i].startDate < props.data[i].endDate
       /\ calculateEndWidth(props, props.data[i].startDate,
                            props.data[i].endDate) \notin {OffAxis, Fixed(2)}
       /\ props.data[k].startDate # Null
       /\ props.data[k].startDate = props.data[k].endDate
       /\ calculateEndWidth(props, props.data[k].startDate,
                            props.data[k].endDate) = Fixed(2)

-----------------------------------------------------------------------------
(* The name-column resize by pointer and by keyboard *)

\* the pointer positions of the resize: the press, and moves far to the left,
\* a little to the right and far to the right of it
ResizePress == 0
ResizeMoves == {-600, 30, 600}

ResizeProps ==
  GeomProps(<<NewRow(1, "a", "project", DateOf(2024, 6, 15), DateOf(2025, 0, 20), 0)>>,
            FALSE)

InitResize == Constructed(ResizeProps, Dom(1000, 1000))

NextResize ==
  \/ Mount
  \/ onNameResizeStart(ResizePress)
  \/ \E clientX \in ResizeMoves : onNameResizeMove(clientX)
  \/ onNameResizeEnd
  \/ \E key \in {"ArrowLeft", "ArrowRight"} : onResizeKeyDown(key)
  \/ CenterTimer

SpecResize == InitResize /\ [][NextResize]_vars

\* an arrow key on the resize handle moved the width by 15, or to the bound
\* that the move by 15 would have crossed
KeyStepOrBound ==
  lastEvent'.op = "onResizeKeyDown" =>
    \/ state'.nameWidth = state.nameWidth - 15
    \/ state'.nameWidth = state.nameWidth + 15
    \/ state'.nameWidth = 150 /\ state.nameWidth - 15 < 150
    \/ state'.nameWidth = 700 /\ state.nameWidth + 15 > 700

\* C9: after any sequence of drag starts, drag moves, drag ends and arrow keys
\* on the resize handle, state.nameWidth lies in [150, 700], and each arrow
\* key changes it by exactly 15 unless the bound clamps it.
C9_NameWidthWithinBounds ==
  /\ [](state.nameWidth >= 150 /\ state.nameWidth <= 700)
  /\ [][KeyStepOrBound]_vars

\* an arrow key pressed during a drag that had taken the width to its upper
\* bound, which the key leaves there
C9_Witness ==
  /\ lastEvent.op = "onResizeKeyDown"
  /\ state.nameWidth = 700
  /\ nameResizeInfo # <<>>

-----------------------------------------------------------------------------
(* The end-date drag on bounded datasets *)

\* one project row: a bar over two years that ends early in the axis' last
\* month, or a bar from the middle of one year into the next; or a row
\* without an end date that opens the axis and a two-day bar at its far end
DragDatasets ==
  { <<NewRow(1, "a", "project", DateOf(2024, 0, 10), DateOf(2026, 0, 2), 0)>>,
    <<NewRow(1, "a", "project", DateOf(2024, 6, 15), DateOf(2025, 0, 20), 0)>>,
    <<NewRow(1, "a", "project", DateOf(2024, 0, 10), Null, 0),
      NewRow(2, "b", "project", DateOf(2026, 11, 29), DateOf(2026, 11, 30), 0)>> }

\* the host passes onEndDateChange
DragProps(data, adjustableEndDate) ==
  [data |-> data, ganttStartDate |-> DateOf(2024, 2, 1),
   ganttEndDate |-> DateOf(2024, 11, 31), currentDate |-> DateOf(2025, 5, 15),
   expandDetails |-> FALSE, adjustableEndDate |-> adjustableEndDate,
   columnViewCount |-> 0, onEndDateChange |-> TRUE]

\* the container widths
DragLayouts == {350, 1000}

\* the pointer positions of the drag: the press, and moves far to the left,
\* one pixel to the right and far to the right of it
DragPress == 0
DragMoves == {-2000, 1, 2000}

\* the data as the host builds it anew in updateView
FreshData(data) ==
  [i \in DOMAIN data |->
     NewRow(data[i].id, data[i].name, data[i].rowType, data[i].startDate,
            data[i].endDate, data[i].parentId)]

InitDrag ==
  \E data \in DragDatasets, adjustableEndDate \in BOOLEAN, w \in DragLayouts :
    Constructed(DragProps(data, adjustableEndDate), Dom(w, w))

\* a handle is pressed when no drag is in progress, the button being up, and
\* only on a row without an override, which bounds the drags of a behaviour
\* by the rows
NextDrag ==
  \/ Mount
  \/ \E z \in {"month", "week", "year"} : setZoom(z)
  \/ \E adjustableEndDate \in BOOLEAN :
       updateView(DragProps(FreshData(props.data), adjustableEndDate))
  \/ \E rowId \in 1..Len(props.data) :
       /\ state.editingEnd = <<>>
       /\ rowId \notin DOMAIN state.endDateOverrides
       /\ startBarEndEdit(rowId, DragPress)
  \/ \E clientX \in DragMoves : onBarDragMove(clientX)
  \/ onGlobalMouseUp

SpecDrag == InitDrag /\ [][NextDrag]_vars

-----------------------------------------------------------------------------
(* Claims about the end-date drag *)

\* a release that completes a drag with editing enabled, the live width
\* above the width at the press: the pointer went to the right
DragToRightCompleted ==
  /\ lastEvent'.op = "onGlobalMouseUp"
  /\ state.editingEnd # <<>>
  /\ props.adjustableEndDate
  /\ state.editingEnd[1].liveWidthPct > state.editingEnd[1].startWidthPct

\* C4: a completed end-date drag with adjustableEndDate enabled and a
\* positive net pixel delta stores an override that is strictly later than
\* the row's effective end date before the drag, and invokes onEndDateChange
\* exactly once.
C4_DragExtendsEndDate ==
  [][DragToRightCompleted =>
       /\ state.editingEnd[1].rowId \in DOMAIN state'.endDateOverrides
       /\ state'.endDateOverrides[state.editingEnd[1].rowId]
            > effectiveEndOf(state, RowOf(props, state.editingEnd[1].rowId))
       /\ Len(lastEvent'.changeCalls) = 1]_vars

\* the part of C4 the code keeps: the release of an enabled drag stores an
\* override for the row and calls onEndDateChange once, with the stored date
C4_ReleaseStoresAndNotifies ==
  [][(lastEvent'.op = "onGlobalMouseUp" /\ state.editingEnd # <<>>
        /\ props.adjustableEndDate)
       => /\ state.editingEnd[1].rowId \in DOMAIN state'.endDateOverrides
          /\ lastEvent'.changeCalls
               = <<<<state.editingEnd[1].rowId,
                     state'.endDateOverrides[state.editingEnd[1].rowId]>>>>]_vars

\* a pointer-down on a handle while editing is disabled changes nothing
PressWhileDisabled ==
  (lastEvent'.op = "startBarEndEdit" /\ ~props.adjustableEndDate)
    => /\ state' = state
       /\ state'.editingEnd = <<>>
       /\ listeners' = listeners
       /\ lastEvent'.changeCalls = <<>>

\* the release of a drag while editing is disabled only ends the drag
ReleaseWhileDisabled ==
  (lastEvent'.op = "onGlobalMouseUp" /\ state.editingEnd # <<>>
     /\ ~props.adjustableEndDate)
    => /\ state'.editingEnd = <<>>
       /\ state'.endDateOverrides = state.endDateOverrides
       /\ lastEvent'.changeCalls = <<>>

\* C10: with adjustableEndDate disabled a pointer-down on a bar handle is a
\* no-op (editingEnd stays null, no window listener is installed, the
\* overrides are unchanged, onEndDateChange is not invoked), and the release
\* of a drag during which the flag became disabled clears editingEnd, stores
\* no override and does not invoke the callback.
C10_DisabledEditingIsInert ==
  [][PressWhileDisabled /\ ReleaseWhileDisabled]_vars

\* the release of a drag that was started with editing enabled, dragged to
\* the right, and ended after the host had disabled editing
C10_Witness ==
  /\ lastEvent.op = "onGlobalMouseUp"
  /\ ~props.adjustableEndDate
  /\ "mouseup.bar" \notin listeners
  /\ state.editingEnd = <<>>
  /\ state.endDateOverrides = <<>>

\* the drag in progress after a move of the pointer
MovedEdit == lastEvent.op = "onBarDragMove" /\ state.editingEnd # <<>>

\* C11: during an end-date drag, after every drag move the live width
\* editingEnd.liveWidthPct lies in [1, 100 - rowLeftPct], for every captured
\* rowLeftPct and every pointer position.
C11_LiveWidthWithinClamp ==
  MovedEdit =>
    /\ state.editingEnd[1].liveWidthPct >= Fixed(1)
    /\ state.editingEnd[1].liveWidthPct
         <= Fixed(100) - state.editingEnd[1].rowLeftPct

\* what the two clamps of onBarDragMove keep: the live width never passes
\* the axis end, and it is at least 1 when the bar starts at most 99 percent
\* into the axis
C11_ClampedWhereRoomIsLeft ==
  MovedEdit =>
    /\ state.editingEnd[1].liveWidthPct
         <= Fixed(100) - state.editingEnd[1].rowLeftPct
    /\ state.editingEnd[1].rowLeftPct <= Fixed(99)
         => state.editingEnd[1].liveWidthPct >= Fixed(1)

\* the state without the overrides: every row ends where its dataset says
WithoutOverrides(s) == [s EXCEPT !.endDateOverrides = <<>>]

\* the bars and the totals are those of the dataset's own end dates
DatasetEndsShown(p, s, w, ph) ==
  /\ \A i \in DOMAIN p.data :
       BarOf(p, s, w, ph, p.data[i]).effectiveEnd = p.data[i].endDate
  /\ totals(p, s) = totals(p, WithoutOverrides(s))

\* C12: an override stored by a drag persists only until the host supplies
\* fresh data: after the host delivers a new dataset, the effective end date
\* used for a row's bar and for the per-segment totals is the end date from
\* the new dataset, not the override.
C12_FreshDataDropsOverride ==
  [][lastEvent'.op = "updateView"
       => DatasetEndsShown(props', state', wrapper', phase')]_vars

\* what the code does with the overrides when the host delivers data: it
\* keeps them, and rows without one end where the new dataset says
C12_OverridesOutliveData ==
  [][lastEvent'.op = "updateView"
       => /\ state'.endDateOverrides = state.endDateOverrides
          /\ \A i \in DOMAIN props'.data :
               props'.data[i].id \notin DOMAIN state.endDateOverrides
                 => BarOf(props', state', wrapper', phase',
                          props'.data[i]).effectiveEnd
                      = props'.data[i].endDate]_vars

-----------------------------------------------------------------------------
(* Auto-centering under host updates, zoom changes, resizes and scrolling *)

\* the focal dates the host passes: two times of one day, and a later day
CenterDates ==
  {DateOf(2024, 9, 15), DateOf(2024, 9, 15) + 1, DateOf(2024, 10, 20)}

\* three months are to be visible, so that the month view overflows
CenterProps(data, currentDate) ==
  [data |-> data, ganttStartDate |-> DateOf(2024, 2, 1),
   ganttEndDate |-> DateOf(2024, 11, 31), currentDate |-> currentDate,
   expandDetails |-> FALSE, adjustableEndDate |-> FALSE,
   columnViewCount |-> 3, onEndDateChange |-> FALSE]

CenterData ==
  <<NewRow(1, "a", "project", DateOf(2024, 6, 15), DateOf(2025, 0, 20), 0)>>

\* the scroll offsets the user chooses
CenterScrolls == {0, 200}

InitCenter ==
  \E currentDate \in CenterDates :
    Constructed(CenterProps(CenterData, currentDate), Dom(1000, 1000))

NextCenter ==
  \/ Mount
  \/ Render
  \/ CenterTimer
  \/ \E z \in {"month", "year"} : setZoom(z)
  \/ \E currentDate \in CenterDates :
       updateView(CenterProps(FreshData(props.data), currentDate))
  \/ \E x \in CenterScrolls : Scroll(x)
  \/ onNameResizeStart(ResizePress)
  \/ \E clientX \in {-600, 600} : onNameResizeMove(clientX)
  \/ onNameResizeEnd

SpecCenter == InitCenter /\ [][NextCenter]_vars

-----------------------------------------------------------------------------
(* Claims about auto-centering *)

\* the view has been centered for the signature that the step keeps
SignatureKept ==
  /\ lastCenterSignature # <<>>
  /\ buildCenterSignature(props', state') = lastCenterSignature[1]
  /\ buildCenterSignature(props, state) = lastCenterSignature[1]

\* C5: once the view has been centered for a signature, no event that leaves
\* the signature unchanged (a name-column resize, a pending timer, a
\* re-render) writes the wrapper's scroll offset: the offset the user has
\* scrolled to stays.
C5_NoWriteWhileSignatureKept ==
  [][(SignatureKept /\ lastEvent'.op # "Scroll")
       => wrapper'.scrollLeft = wrapper.scrollLeft]_vars

\* the part of C5 the code keeps: an update with the signature unchanged
\* does not write the scroll offset
C5_UpdatesKeepScroll ==
  [][(SignatureKept /\ lastEvent'.op \notin {"Scroll", "CenterTimer"})
       => /\ lastEvent'.centerCalls = 0
          /\ wrapper'.scrollLeft = wrapper.scrollLeft]_vars

\* C6: when props.currentDate, the zoom level or the measured container
\* width changes, the update cycle that follows invokes centerOnCurrentDate
\* and sets the scroll offset to the value computed for the new inputs.
C6_InputChangeRecenters ==
  [][(\/ props'.currentDate # props.currentDate
      \/ state'.zoomLevel # state.zoomLevel
      \/ state'.containerWidth # state.containerWidth)
       => /\ lastEvent'.centerCalls = 1
          /\ wrapper'.scrollLeft = centerOnCurrentDate(props', state', wrapper')]_vars

\* the part of C6 the code keeps: the same when the focal date changes its
\* calendar day
C6_DayChangeRecenters ==
  [][(\/ toDateString(props'.currentDate) # toDateString(props.currentDate)
      \/ state'.zoomLevel # state.zoomLevel
      \/ state'.containerWidth # state.containerWidth)
       => /\ lastEvent'.centerCalls = 1
          /\ wrapper'.scrollLeft = centerOnCurrentDate(props', state', wrapper')]_vars

-----------------------------------------------------------------------------
(* The two pointer drags: the name column's resize handle and a bar's
   end-date handle *)

\* one bar from the middle of one year into the next, in a wide container
PointerData ==
  <<NewRow(1, "a", "project", DateOf(2024, 6, 15), DateOf(2025, 0, 20), 0)>>

PointerMoves == {-2000, 2000}

InitPointer ==
  \E adjustableEndDate \in BOOLEAN :
    Constructed(DragProps(PointerData, adjustableEndDate), Dom(1000, 1000))

\* no drag is in progress: the button is up
ButtonUp == nameResizeInfo = <<>> /\ state.editingEnd = <<>>

\* a handle is pressed while the button is up; the host may deliver data and
\* switch the editing flag at any time, and the centering timeouts of the
\* resize run at any time
NextPointer ==
  \/ Mount
  \/ \E adjustableEndDate \in BOOLEAN :
       updateView(DragProps(FreshData(props.data), adjustableEndDate))
  \/ ButtonUp /\ onNameResizeStart(ResizePress)
  \/ \E clientX \in PointerMoves : onNameResizeMove(clientX)
  \/ onNameResizeEnd
  \/ CenterTimer
  \/ \E rowId \in 1..Len(props.data) :
       /\ ButtonUp
       /\ rowId \notin DOMAIN state.endDateOverrides
       /\ startBarEndEdit(rowId, DragPress)
  \/ \E clientX \in PointerMoves : onBarDragMove(clientX)
  \/ onGlobalMouseUp

SpecPointer == InitPointer /\ [][NextPointer]_vars

\* the window listeners of the two drags
dragListeners ==
  {"mousemove.name", "mouseup.name", "mousemove.bar", "mouseup.bar"}

\* the press of the resize handle, and the press of a bar handle that starts
\* a drag, leave the drag's mousemove and mouseup listeners on the window
PressInstalls ==
  /\ lastEvent'.op = "onNameResizeStart"
       => /\ {"mousemove.name", "mouseup.name"} \subseteq listeners'
          /\ nameResizeInfo' # <<>>
  /\ (lastEvent'.op = "startBarEndEdit" /\ state'.editingEnd # <<>>)
       => {"mousemove.bar", "mouseup.bar"} \subseteq listeners'

\* the mouseup handlers leave no drag listener on the window and no drag
\* recorded
ReleaseRemoves ==
  lastEvent'.op \in {"onNameResizeEnd", "onGlobalMouseUp"}
    => /\ listeners' \cap dragListeners = {}
       /\ nameResizeInfo' = <<>>
       /\ state'.editingEnd = <<>>

\* a recorded drag has its mouseup listener on the window, so that the first
\* mouseup reaches its handler, and drag listeners are on only during a drag
DragHasMouseUp ==
  /\ nameResizeInfo # <<>> => "mouseup.name" \in listeners
  /\ state.editingEnd # <<>> => "mouseup.bar" \in listeners
  /\ ButtonUp => listeners \cap dragListeners = {}

-----------------------------------------------------------------------------
(* Teardown while deferred callbacks are pending *)

\* a container that has no width yet, and one that is laid out
TeardownLayouts == {0, 1000}

InitTeardown ==
  \E w \in TeardownLayouts :
    Constructed(DragProps(PointerData, FALSE), Dom(w, w))

\* the events that schedule timeouts, the timeouts, and the unmount at any
\* moment; one key press to the right and one back bound the name widths
NextTeardown ==
  \/ Mount
  \/ MeasureTimer
  \/ RetryTimer
  \/ CenterTimer
  \/ \E z \in {"month", "year"} : setZoom(z)
  \/ ButtonUp /\ onNameResizeStart(ResizePress)
  \/ onNameResizeEnd
  \/ state.nameWidth = InitialState.nameWidth /\ onResizeKeyDown("ArrowRight")
  \/ state.nameWidth # InitialState.nameWidth /\ onResizeKeyDown("ArrowLeft")
  \/ Unmount

SpecTeardown == InitTeardown /\ [][NextTeardown]_vars

\* the steps in which a timeout's callback runs
TimerOps == {"MeasureTimer", "RetryTimer", "CenterTimer"}

\* C14: teardown cancels all pending deferred callbacks: after
\* componentWillUnmount no re-measure or re-center callback scheduled earlier
\* (from mount, zoom change, resize end, keyboard resize or the zero-width
\* retry) runs, so component state and scroll offset are not mutated after
\* teardown.
C14_TeardownCancelsCallbacks ==
  /\ [](phase = "unmounted" => Pending(measureTimers) = 0)
  /\ [][phase = "unmounted"
         => /\ lastEvent'.op \notin TimerOps
            /\ state' = state
            /\ wrapper'.scrollLeft = wrapper.scrollLeft]_vars

\* the component was unmounted after a zoom change while at least four
\* callbacks were pending, and none is pending any more
C14_Witness ==
  /\ phase = "unmounted"
  /\ lastEvent.op = "componentWillUnmount"
  /\ lastEvent.cleared >= 4
  /\ state.zoomLevel = "month"
  /\ Pending(measureTimers) = 0

-----------------------------------------------------------------------------
(* The control of index.ts under host updates and selections *)

\* a record of the dataset as the host delivers it
Record(recordId, id, name, rowType, startDate, endDate, parentId) ==
  [recordId |-> recordId, id |-> id, name |-> name, rowType |-> rowType,
   startDate |-> startDate, endDate |-> endDate, parentId |-> parentId]

\* three records: one with a source id, one whose source id is the empty
\* string, and a child without a source id and with a type that is none of
\* the three
HostRecords ==
  <<Record(1, 101, "a", "Project", DateOf(2024, 6, 15), DateOf(2025, 0, 20), Null),
    Record(2, 0, "b", "TENDER-", DateOf(2024, 8, 1), Null, Null),
    Record(3, Null, "B", "task", Null, Null, 1)>>

\* the paging controls a dataset may have: none, or hasNextPage and
\* loadNextPage with or without setPageSize
HostPagings ==
  {Unpaged} \cup [exists : {TRUE}, setPageSize : BOOLEAN, hasNextPage : BOOLEAN]

InitHost ==
  \E paging \in HostPagings :
    ConstructedOn(DragProps(dataRows(HostRecords), FALSE), Dom(1000, 1000),
                  paging)

NextHost ==
  \/ Mount
  \/ \E paging \in HostPagings :
       pagedUpdateView(DragProps(dataRows(HostRecords), FALSE), paging)
  \/ \E rowId \in 1..Len(props.data), target \in {"name", "bar", "cell"} :
       rowClick(rowId, target)

SpecHost == InitHost /\ [][NextHost]_vars

\* C15: across any sequence of updateView calls, setPageSize(500) is called
\* at most once, loadNextPage is called at most once per updateView and only
\* when hasNextPage() returned true, and at most 40 times in total
\* (pagingSafetyCounter never exceeds 40).
C15_PagingBounded ==
  /\ [](/\ host.totals.setPageSize <= 1
        /\ host.totals.loadNextPage <= 40
        /\ host.pagingSafetyCounter <= 40
        /\ host.calls.loadNextPage <= 1
        /\ host.calls.loadNextPage = 1 => host.hasNextPage)
  /\ [][lastEvent'.op = "updateView"
         => /\ host'.totals.loadNextPage
                 = host.totals.loadNextPage + host'.calls.loadNextPage
            /\ host'.totals.setPageSize
                 = host.totals.setPageSize + host'.calls.setPageSize]_vars

\* an updateView that found a next page after 40 pages had been loaded, and
\* loaded none
C15_Witness ==
  /\ lastEvent.op = "updateView"
  /\ host.pagingSafetyCounter = 40
  /\ host.totals.loadNextPage = 40
  /\ host.totals.setPageSize = 1
  /\ host.hasNextPage
  /\ host.calls.loadNextPage = 0

\* the outputs after a selection of this row: its source id when it has a
\* non-empty one, else its internal id, and its type
OutputsFor(row) ==
  [selectedId |-> IF row.sourceId # Null /\ row.sourceId # 0
                  THEN <<row.sourceId>> ELSE <<row.id>>,
   selectedRowType |-> <<row.rowType>>]

\* before any selection both outputs are undefined
UndefinedBeforeSelection ==
  host.selectedUid = <<>>
    => getOutputs(host) = [selectedId |-> <<>>, selectedRowType |-> <<>>]

\* the types of the rows are normalized
TypesNormalized ==
  \A i \in DOMAIN props.data :
    props.data[i].rowType \in {"project", "tender", "milestone", "unknown"}

\* C16: after any sequence of selections getOutputs returns as selectedId
\* the most recently selected row's source id when it is non-empty, else the
\* row's internal id, and as selectedRowType that row's normalized type;
\* notifyOutputChanged is invoked exactly once per selection; before any
\* selection both outputs are undefined.
C16_SelectionOutputsAndOneNotification ==
  /\ [](UndefinedBeforeSelection /\ TypesNormalized)
  /\ [][lastEvent'.op = "rowClick"
         => /\ getOutputs(host') = OutputsFor(RowOf(props, lastEvent'.rowId))
            /\ host'.calls.notifyOutputChanged = 1]_vars

\* what the code keeps of C16: the outputs, and one notification for each
\* call of onSelect, of which a click on the name cell makes two
C16_OutputsAndNotificationPerCall ==
  /\ [](UndefinedBeforeSelection /\ TypesNormalized)
  /\ [][lastEvent'.op = "rowClick"
         => /\ getOutputs(host') = OutputsFor(RowOf(props, lastEvent'.rowId))
            /\ host'.calls.notifyOutputChanged
                 = IF lastEvent'.target = "name" THEN 2 ELSE 1]_vars

-----------------------------------------------------------------------------
(* The axis segments in every zoom, on ordered and on inverted axes *)

\* no rows; a row inside the host's range; rows without an end date that
\* start after the host's range ends; a row that only has an end date
SegmentDatasets ==
  { <<>>,
    <<NewRow(1, "a", "project", DateOf(2024, 6, 15), DateOf(2025, 0, 20), 0)>>,
    <<NewRow(1, "a", "project", DateOf(2025, 0, 20), Null, 0)>>,
    <<NewRow(1, "a", "project", DateOf(2026, 5, 5), Null, 0)>>,
    <<NewRow(1, "a", "project", Null, DateOf(2024, 0, 10), 0)>> }

\* the host's range: ten months, one month, and an end before the start
SegmentRanges ==
  { <<DateOf(2024, 2, 1), DateOf(2024, 11, 31)>>,
    <<DateOf(2024, 2, 5), DateOf(2024, 2, 20)>>,
    <<DateOf(2024, 5, 10), DateOf(2024, 2, 5)>> }

SegmentProps(data, range) ==
  [data |-> data, ganttStartDate |-> range[1], ganttEndDate |-> range[2],
   currentDate |-> DateOf(2024, 5, 15), expandDetails |-> FALSE,
   adjustableEndDate |-> FALSE, columnViewCount |-> 0,
   onEndDateChange |-> FALSE]

InitSegments ==
  \E data \in SegmentDatasets, range \in SegmentRanges :
    Constructed(SegmentProps(data, range), Dom(1000, 1000))

\* the container is laid out from the start, so no retry of the measurement
\* is ever scheduled
NextSegments ==
  \/ Mount
  \/ MeasureTimer
  \/ CenterTimer
  \/ \E z \in {"month", "week", "year"} : setZoom(z)
  \/ \E range \in SegmentRanges :
       updateView(SegmentProps(FreshData(props.data), range))

SpecSegments == InitSegments /\ [][NextSegments]_vars

\* the one segment of the fallback on the bounds b
FallbackSegments(b) == <<[start |-> b.start, label |-> <<>>]>>

\* the zoom level finds no segment on the bounds b: no month when the axis
\* ends before it starts, no week when it ends before the Monday of the
\* week it starts in, no year when it ends in an earlier year
SpanIsEmpty(b, z) ==
  \/ z = "month" /\ b.end < b.start
  \/ z = "week" /\ b.end < b.start - ((getDay(b.start) + 6) % 7) * TicksPerDay
  \/ z = "year" /\ getFullYear(b.end) < getFullYear(b.start)

\* at least one segment; the fallback when the span is empty; and a segment
\* with the empty label only as the single segment of the fallback
SegmentsOn(b, z) ==
  /\ Len(SegmentsIn(b, z)) >= 1
  /\ SpanIsEmpty(b, z) => SegmentsIn(b, z) = FallbackSegments(b)
  /\ (\E i \in DOMAIN SegmentsIn(b, z) : SegmentsIn(b, z)[i].label = <<>>)
       => SegmentsIn(b, z) = FallbackSegments(b)

\* C20: getSegments returns at least one segment for every zoom level,
\* dataset and host range; when the zoom level's span yields no segment the
\* result is exactly one segment, at the axis start, with the empty label.
C20_AtLeastOneSegment ==
  /\ getSegments(props, state) = SegmentsIn(getTimelineBounds(props),
                                            state.zoomLevel)
  /\ \A b \in {getTimelineBounds(props)} : SegmentsOn(b, state.zoomLevel)

\* the week view of an axis that ends before it starts, drawn with the
\* fallback segment
C20_Witness ==
  /\ phase = "mounted"
  /\ lastEvent.op = "setZoom"
  /\ state.zoomLevel = "week"
  /\ getTimelineBounds(props).end < getTimelineBounds(props).start
  /\ getSegments(props, state) = FallbackSegments(getTimelineBounds(props))

-----------------------------------------------------------------------------
(* The colour configuration as the maker writes it *)

\* the colours of the entries, and how an entry may name its category
EntryColours == {"red", "blue", "green"}
EntryLabels == {"none", "project:", "project=", "tender:"}

\* the forms of the string: separated by commas, by semicolons and spaces,
\* the comma form in quotes, and a JSON array of strings
EntryForms == {"comma", "semicolon", "quoted", "array"}

\* the lexemes of an entry
EntryText(e) ==
  CASE e.label = "none" -> <<e.colour>>
    [] e.label = "project:" -> <<"project", ":", e.colour>>
    [] e.label = "project=" -> <<"project", "=", e.colour>>
    [] e.label = "tender:" -> <<"tender", ":", e.colour>>

\* the texts joined by the lexemes sep
RECURSIVE Joined(_, _)
Joined(texts, sep) ==
  IF Len(texts) = 0 THEN <<>>
  ELSE IF Len(texts) = 1 THEN texts[1]
  ELSE texts[1] \o sep \o Joined(Tail(texts), sep)

\* the string of the entries in a form
Written(entries, form) ==
  CASE form = "comma" ->
         Joined([i \in DOMAIN entries |-> EntryText(entries[i])], <<",">>)
    [] form = "semicolon" ->
         Joined([i \in DOMAIN entries |-> EntryText(entries[i])], <<";", Space>>)
    [] form = "quoted" ->
         <<Quote>>
           \o Joined([i \in DOMAIN entries |-> EntryText(entries[i])], <<",">>)
           \o <<Quote>>
    [] form = "array" ->
         <<"[">>
           \o Joined([i \in DOMAIN entries |->
                        <<Quote>> \o EntryText(entries[i]) \o <<Quote>>],
                     <<",">>)
           \o <<"]">>

\* the context of an updateView on this dataset with this configuration
ContextOf(data, written) ==
  [colors |-> IF written.place = "property"
              THEN Written(written.entries, written.form) ELSE <<>>,
   datasetColors |-> IF written.place = "column"
                     THEN Written(written.entries, written.form) ELSE <<>>,
   records |-> data # <<>>,
   written |-> written]

\* no record, or one
ColourDatasets ==
  { <<>>,
    <<NewRow(1, "a", "project", DateOf(2024, 6, 15), DateOf(2025, 0, 20), 0)>> }

InitColours ==
  \E data \in ColourDatasets :
    ConstructedWith(DragProps(data, FALSE), Dom(1000, 1000), Unpaged,
                    ContextOf(data, NothingWritten))

\* an updateView after the maker changed what is written
rewritten(written) ==
  hostUpdateView([props EXCEPT !.data = FreshData(props.data)], Unpaged,
                 ContextOf(props.data, written))

\* the maker adds an entry, chooses another form or the other place, or
\* clears the configuration
NextColours ==
  \/ Mount
  \/ \E colour \in EntryColours, label \in EntryLabels :
       /\ Len(host.context.written.entries) < MaxEntries
       /\ rewritten([host.context.written EXCEPT
                       !.entries = Append(@, [label |-> label,
                                              colour |-> colour])])
  \/ \E form \in EntryForms :
       /\ form # host.context.written.form
       /\ rewritten([host.context.written EXCEPT !.form = form])
  \/ \E place \in {"property", "column"} :
       /\ place # host.context.written.place
       /\ rewritten([host.context.written EXCEPT !.place = place])
  \/ /\ host.context.written.entries # <<>>
     /\ rewritten([host.context.written EXCEPT !.entries = <<>>])

SpecColours == InitColours /\ [][NextColours]_vars

\* the colours of the entries with one of these labels, as tokens
ColoursOf(entries, labels) ==
  [i \in DOMAIN SelectSeq(entries, LAMBDA e : e.label \in labels) |->
     <<SelectSeq(entries, LAMBDA e : e.label \in labels)[i].colour>>]

\* the tokens updateView reads: the colours of the entries when the property
\* holds them, or the column does and there is a record to read it from
TokensRead(context) ==
  IF context.written.place = "property" \/ context.records
  THEN ColoursOf(context.written.entries, EntryLabels)
  ELSE <<>>

\* the labelled values of the property come first
LabelsFirst(context, colors) ==
  context.written.place = "property"
    => /\ ColoursOf(context.written.entries, {"project:", "project="}) # <<>>
            => colors[1] = ColoursOf(context.written.entries,
                                     {"project:", "project="})[1]
       /\ ColoursOf(context.written.entries, {"tender:"}) # <<>>
            => colors[2] = ColoursOf(context.written.entries, {"tender:"})[1]

\* at least two colours, the later ones the tokens that differ from the
\* first two, and the default pair when nothing is read
ColoursComplete(context, colors) ==
  /\ Len(colors) >= 2
  /\ SubSeq(colors, 3, Len(colors))
       = SelectSeq(TokensRead(context),
                   LAMBDA c : c # colors[1] /\ c # colors[2])
  /\ TokensRead(context) = <<>> => colors = <<DefaultProject, DefaultTender>>

\* C21: labelled values take precedence over positional values: when the
\* configuration string has a project: (or project=) label or a tender:
\* label, the first colour is the project-labelled value and the second the
\* tender-labelled value, whatever the order of the tokens; there are at
\* least two colours, the later ones are the remaining tokens different from
\* the first two, and an empty or undefined input without a dataset fallback
\* yields the default pair.
C21_LabelsTakePrecedence ==
  /\ LabelsFirst(host.context, host.colors)
  /\ ColoursComplete(host.context, host.colors)

\* what the code keeps of C21: the same when the string is no JSON array
C21_HoldsOutsideArrays ==
  host.context.written.form # "array"
    => /\ LabelsFirst(host.context, host.colors)
       /\ ColoursComplete(host.context, host.colors)

-----------------------------------------------------------------------------
(* Sorting while the view is zoomed, resized and edited *)

SortFields == {"name", "startDate", "endDate"}

\* the detail columns are shown, so that all three headers exist
SortProps == [DragProps(PointerData, TRUE) EXCEPT !.expandDetails = TRUE]

InitSort == Constructed(SortProps, Dom(1000, 1000))

\* a header is clicked at any moment, also during a drag (a second pointer);
\* one key press to the right and one back bound the name widths, and the
\* re-measuring timeouts of the mount and of the zoom changes stay pending,
\* which bounds the zoom changes
NextSort ==
  \/ Mount
  \/ \E field \in SortFields : toggleSort(field)
  \/ \E z \in {"month", "year"} : setZoom(z)
  \/ CenterTimer
  \/ state.nameWidth = InitialState.nameWidth /\ onResizeKeyDown("ArrowRight")
  \/ state.nameWidth # InitialState.nameWidth /\ onResizeKeyDown("ArrowLeft")
  \/ \E rowId \in 1..Len(props.data) :
       /\ state.editingEnd = <<>>
       /\ rowId \notin DOMAIN state.endDateOverrides
       /\ startBarEndEdit(rowId, DragPress)
  \/ onBarDragMove(2000)
  \/ onGlobalMouseUp

SpecSort == InitSort /\ [][NextSort]_vars

\* the state after toggleSort(field) as C22 has it
SortToggled(field) ==
  state' = IF state.sortField = field
           THEN [state EXCEPT !.sortDir = IF state.sortDir = "asc" THEN "desc"
                                          ELSE "asc"]
           ELSE [state EXCEPT !.sortField = field, !.sortDir = "asc"]

\* C22: toggleSort(field) flips sortDir between asc and desc and keeps
\* sortField when field is the active sort field; otherwise sortField
\* becomes field and sortDir asc; no other state (zoom, widths, overrides,
\* editingEnd, containerWidth) changes.
C22_ToggleSortFrame ==
  [][\A field \in SortFields : toggleSort(field) => SortToggled(field)]_vars

\* the direction of the end date column flipped in the month view, with a
\* widened name column and an override stored
C22_Witness ==
  /\ lastEvent.op = "toggleSort"
  /\ state.sortField = "endDate"
  /\ state.sortDir = "desc"
  /\ state.zoomLevel = "month"
  /\ state.nameWidth # InitialState.nameWidth
  /\ state.endDateOverrides # <<>>

-----------------------------------------------------------------------------
(* The zoom level under every kind of event *)

ZoomLevels == {"month", "week", "year"}

InitZoom == Constructed(DragProps(PointerData, TRUE), Dom(1000, 1000))

\* a zoom button is clicked, the active one included; the host delivers data,
\* the window is resized, the name header is clicked, a bar's handle is
\* pressed and released, and the timeouts run
NextZoom ==
  \/ Mount
  \/ \E z \in ZoomLevels : setZoom(z)
  \/ \E z \in ZoomLevels : setZoomActive(z)
  \/ updateView(DragProps(FreshData(props.data), TRUE))
  \/ onWindowResize
  \/ toggleSort("name")
  \/ \E rowId \in 1..Len(props.data) :
       /\ state.editingEnd = <<>>
       /\ rowId \notin DOMAIN state.endDateOverrides
       /\ startBarEndEdit(rowId, DragPress)
  \/ onGlobalMouseUp
  \/ MeasureTimer
  \/ CenterTimer

SpecZoom == InitZoom /\ [][NextZoom]_vars

\* the level changes in no step but a setZoom, which makes it the level
\* selected
OnlySetZoomChangesLevel ==
  /\ state'.zoomLevel # state.zoomLevel => lastEvent'.op = "setZoom"
  /\ \A z \in ZoomLevels : setZoom(z) => state'.zoomLevel = z

\* the selection of the active level changes no state and schedules nothing
ActiveLevelIsInert ==
  \A z \in ZoomLevels :
    setZoomActive(z) => /\ state' = state
                        /\ measureTimers' = measureTimers
                        /\ wrapper' = wrapper

\* the selection of another level leaves three more measurements and one
\* more centering pending, none of which has run in the step
ChangeSchedulesPasses ==
  \A z \in ZoomLevels :
    setZoom(z) => /\ measureTimers'["measure"] = measureTimers["measure"] + 3
                  /\ measureTimers'["center"] = measureTimers["center"] + 1
                  /\ measureTimers'["retry"] = measureTimers["retry"]

\* C23: zoomLevel starts as year and changes only through a setZoom(z)
\* selection, to z; no data update, resize, sort, drag or timer event
\* changes it.  Selecting the active level changes no state and schedules no
\* callbacks; selecting another level schedules the re-measurement passes and
\* one re-centering pass, which run after the change.
C23_ZoomOnlyBySelection ==
  /\ [](phase = "constructed" => state.zoomLevel = "year")
  /\ [][OnlySetZoomChangesLevel /\ ActiveLevelIsInert
          /\ ChangeSchedulesPasses]_vars

\* the centering pass of a change to the week view has run, in the week view
C23_Witness ==
  /\ state.zoomLevel = "week"
  /\ lastEvent.op = "CenterTimer"
  /\ measureTimers["center"] = 0
  /\ state.endDateOverrides # <<>>

-----------------------------------------------------------------------------
(* The scroll target of centerOnCurrentDate, for focal dates on and off the
   axis *)

\* the focal dates: before the axis of FocusData, on it, and after it
FocusDates == {DateOf(2024, 2, 10), DateOf(2024, 8, 15), DateOf(2025, 7, 1)}

\* one row from June 2024 to January 2025
FocusData ==
  <<NewRow(1, "a", "project", DateOf(2024, 5, 15), DateOf(2025, 0, 20), 0)>>

\* columnViewCount 3 gives month columns wider than 160 px in a container of
\* 1000 px, columnViewCount 6 gives narrower ones
FocusCounts == {3, 6}

FocusProps(data, currentDate, columnViewCount) ==
  [CenterProps(data, currentDate) EXCEPT !.columnViewCount = columnViewCount]

InitFocus ==
  \E currentDate \in FocusDates, columnViewCount \in FocusCounts :
    Constructed(FocusProps(FocusData, currentDate, columnViewCount),
                Dom(1000, 1000))

NextFocus ==
  \/ Mount
  \/ CenterTimer
  \/ \E z \in ZoomLevels : setZoom(z)
  \/ \E currentDate \in FocusDates, columnViewCount \in FocusCounts :
       updateView(FocusProps(FreshData(props.data), currentDate,
                             columnViewCount))
  \/ \E x \in CenterScrolls : Scroll(x)

SpecFocus == InitFocus /\ [][NextFocus]_vars

\* timelineWidth of centerOnCurrentDate in the state given
CenterTimelineWidth(p, s, w, ph) ==
  timelineWidthOf(p, s, Len(getSegments(p, s)), availablePxOf(p, s, w, ph))

\* tableWidthPx of centerOnCurrentDate
CenterTableWidth(p, s, w, ph) ==
  fixedWidthOf(p, s) + CenterTimelineWidth(p, s, w, ph)

\* const viewport = wrapper.clientWidth || containerPx
ViewportOf(s, w, ph) ==
  IF w.clientWidth # 0 THEN w.clientWidth ELSE containerPxOf(s, w, ph)

\* the focal date's share of the axis b in percent: 0 before the axis start,
\* 100 after the axis end
FocalPct(b, date) ==
  IF date < b.start THEN 0
  ELSE IF date > b.end THEN Fixed(100)
  ELSE StartXIn(b, date)

\* the offset x is an integer of the range that a table of width
\* fixedWidth + timelineWidth leaves in the viewport, and it is the focal
\* date's x position less half the viewport, rounded down, when that is in
\* the range
OffsetCenters(x, fixedWidth, timelineWidth, viewport, pct) ==
  LET range == 0 .. MaxOf(0, fixedWidth + timelineWidth - viewport)
      targetX == Fixed(fixedWidth) + RoundDiv(pct * timelineWidth, 100)
      centred == FloorDiv(2 * targetX - Fixed(viewport), 2 * Scale)
  IN  /\ x \in range
      /\ centred \in range => x = centred

\* the step ran centerOnCurrentDate with the wrapper in place
CenterWrote == lastEvent'.centerCalls = 1 /\ phase' = "mounted"

\* C24: every scroll offset written by centerOnCurrentDate is an integer in
\* [0, max(0, tableWidth - viewportWidth)] of the table as rendered, and is
\* the focal date's x position (the sticky columns' width plus the focal
\* date's fraction of the timeline width) less half the viewport width
\* whenever that lies in the range; a focal date before the axis start counts
\* as the axis start, one after the axis end as the axis end.
C24_OffsetCentersFocalDate ==
  [][CenterWrote
       => OffsetCenters(wrapper'.scrollLeft, fixedWidthOf(props', state'),
                        SumSeq(perSegWidths(props', state', wrapper', phase')),
                        ViewportOf(state', wrapper', phase'),
                        FocalPct(getTimelineBounds(props'),
                                 props'.currentDate))]_vars

\* the part of C24 the code keeps: the same with the timeline width that
\* centerOnCurrentDate computes itself
C24_OffsetCentersInComputedWidth ==
  [][CenterWrote
       => OffsetCenters(wrapper'.scrollLeft, fixedWidthOf(props', state'),
                        CenterTimelineWidth(props', state', wrapper', phase'),
                        ViewportOf(state', wrapper', phase'),
                        FocalPct(getTimelineBounds(props'),
                                 props'.currentDate))]_vars

\* C28: for the same state and props the timeline width and the table width
\* of centerOnCurrentDate are those GanttTable renders: the same width of
\* every segment in month and week zoom, the same total in year zoom.
C28_CenterWidthsAsRendered ==
  phase = "mounted"
    => /\ CenterTimelineWidth(props, state, wrapper, phase)
            = SumSeq(perSegWidths(props, state, wrapper, phase))
       /\ CenterTableWidth(props, state, wrapper, phase)
            = tableWidthPxOf(props, state, wrapper, phase)
       /\ state.zoomLevel # "year"
            => \A i \in DOMAIN getSegments(props, state) :
                 perSegWidths(props, state, wrapper, phase)[i]
                   = MaxOf(8, availablePxOf(props, state, wrapper, phase)
                                \div visibleCountOf(props, state,
                                                    Len(getSegments(props, state))))

\* the part of C28 the code keeps: the widths agree while the month or week
\* column is at most 160 px wide
C28_WidthsAgreeUpTo160 ==
  (/\ phase = "mounted"
   /\ state.zoomLevel # "year"
   /\ availablePxOf(props, state, wrapper, phase)
        \div visibleCountOf(props, state, Len(getSegments(props, state))) <= 160)
    => /\ CenterTimelineWidth(props, state, wrapper, phase)
            = SumSeq(perSegWidths(props, state, wrapper, phase))
       /\ CenterTableWidth(props, state, wrapper, phase)
            = tableWidthPxOf(props, state, wrapper, phase)

-----------------------------------------------------------------------------
(* index.ts: the props that updateView builds from context.parameters *)

\* const props: IGanttViewControlProps = { ... } of updateView: a date
\* property that is not set is replaced by new Date(); adjustableEndDate and
\* onEndDateChange are not among the keys, so the control reads undefined
controlProps(parameters, data, now) ==
  [data |-> data,
   ganttStartDate |-> IF parameters.ganttStartDate = Null THEN now
                      ELSE parameters.ganttStartDate,
   ganttEndDate |-> IF parameters.ganttEndDate = Null THEN now
                    ELSE parameters.ganttEndDate,
   currentDate |-> IF parameters.currentDate = Null THEN now
                   ELSE parameters.currentDate,
   expandDetails |-> parameters.expandDetails,
   adjustableEndDate |-> FALSE,
   columnViewCount |-> parameters.columnViewCount,
   onEndDateChange |-> FALSE]

\* the values the host sets on the properties of the manifest
AdjustParameters ==
  [ganttStartDate : {DateOf(2024, 2, 1)},
   ganttEndDate : {DateOf(2024, 11, 31)},
   currentDate : {Null, DateOf(2024, 8, 15)},
   expandDetails : BOOLEAN,
   adjustableEndDate : BOOLEAN,
   columnViewCount : {0, 3}]

\* the values of new Date() at an updateView
AdjustNows == {DateOf(2024, 9, 1), DateOf(2025, 5, 15)}

\* the context of an updateView with the parameters given and no colours
contextOf(parameters) == NoColors @@ [parameters |-> parameters]

InitAdjust ==
  \E parameters \in AdjustParameters, now \in AdjustNows :
    ConstructedWith(controlProps(parameters, PointerData, now),
                    Dom(1000, 1000), Unpaged, contextOf(parameters))

\* the host delivers parameters; the user presses the place of a bar's handle
NextAdjust ==
  \/ Mount
  \/ \E parameters \in AdjustParameters, now \in AdjustNows :
       hostUpdateView(controlProps(parameters, FreshData(props.data), now),
                      Unpaged, contextOf(parameters))
  \/ \E rowId \in 1..Len(props.data) : startBarEndEdit(rowId, DragPress)
  \/ MeasureTimer
  \/ CenterTimer

SpecAdjust == InitAdjust /\ [][NextAdjust]_vars

\* the host has set adjustableEndDate to true at its last updateView
HostAdjustable(h) == h.context.parameters.adjustableEndDate

\* C25: the host's adjustableEndDate reaches the control: when the host has
\* set it to true, the control enables the drag of a bar's end date (a press
\* on the handle starts an edit), and the release that completes a drag calls
\* onEndDateChange once, with the row id and the new date.
C25_AdjustableReachesControl ==
  [][HostAdjustable(host')
       => /\ ~editingDisabled(props')
          /\ \A rowId \in 1..Len(props.data) :
               (HostAdjustable(host) /\ startBarEndEdit(rowId, DragPress))
                 => /\ state'.editingEnd # <<>>
                    /\ state'.editingEnd[1].rowId = rowId
          /\ (HostAdjustable(host) /\ state.editingEnd # <<>>
                /\ lastEvent'.op = "onGlobalMouseUp")
               => lastEvent'.changeCalls
                    = <<<<state.editingEnd[1].rowId,
                          newEndOf(state.editingEnd[1])>>>>]_vars

\* what the code does instead: whatever the host sets, the control's editing
\* stays disabled and a press on the place of the handle starts no edit
C25_EditingStaysDisabled ==
  /\ editingDisabled(props)
  /\ state.editingEnd = <<>>
  /\ "mouseup.bar" \notin listeners

-----------------------------------------------------------------------------
(* The order of the axis bounds *)

\* C26: getTimelineBounds returns start <= end for every dataset and every
\* host-configured range: rows with only a start date or only an end date,
\* rows whose end date precedes their start date, and a host end date before
\* the earliest row start included.
C26_StartNotAfterEnd ==
  getTimelineBounds(props).start <= getTimelineBounds(props).end

\* the part of C26 the code keeps: the bounds are in order when the earliest
\* start taken (of the rows, else the host's) is not after the latest end
\* taken (of the rows, else the host's)
C26_OrderedWhenDatesOrdered ==
  MinOr(StartDates(props.data) \ {Null}, props.ganttStartDate)
      <= MaxOr(EndDates(props.data) \ {Null}, props.ganttEndDate)
    => getTimelineBounds(props).start <= getTimelineBounds(props).end

-----------------------------------------------------------------------------
(* The orderer on datasets whose parentIds loop *)

\* the datasets of n project rows with the ids 1..n; a parentId is "" (0) or
\* the id of any row, the row's own included
CycleDatasets(n) ==
  { [i \in 1..n |->
       NewRow(i, "a", "project", DateOf(2024, 2, 10 + i), DateOf(2024, 8, 20 - i),
              par[i])] :
    par \in [1..n -> 0..n] }

InitCycle ==
  \E data \in CycleDatasets(CycleRows) :
    Constructed(OrderProps(data), Dom(1000, 1000))

NextCycle ==
  \/ Mount
  \/ Render
  \/ \E field \in SortFields : toggleSort(field)

SpecCycle == InitCycle /\ [][NextCycle]_vars

\* the ids met from id in 1..n steps from a row to its parent
RECURSIVE AncestorsOf(_, _)
AncestorsOf(id, n) ==
  IF n = 0 \/ id \notin {props.data[i].id : i \in DOMAIN props.data} THEN {}
  ELSE {RowById(id).parentId} \cup AncestorsOf(RowById(id).parentId, n - 1)

\* the row is its own parent or lies on a longer loop of parentIds
OnCycle(id) == id \in AncestorsOf(id, Len(props.data))

\* C27: for every dataset of unique non-empty ids orderGanttRows returns,
\* whatever loops the parentIds form, and returns every row at most once; a
\* row that is its own parent or lies on a loop is not returned.
C27_LoopsEmitNoRowTwice ==
  phase = "mounted" =>
    /\ Len(ordered) = Cardinality(Returned)
    /\ Returned \subseteq {props.data[i].id : i \in DOMAIN props.data}
    /\ \A i \in DOMAIN props.data :
         OnCycle(props.data[i].id) => props.data[i].id \notin Returned

\* a root is returned from a dataset that has a row that is its own parent
\* and two rows that are each other's parent
C27_Witness ==
  /\ phase = "mounted"
  /\ ordered # <<>>
  /\ \E i \in DOMAIN props.data : props.data[i].parentId = props.data[i].id
  /\ \E i, k \in DOMAIN props.data :
       /\ i # k
       /\ props.data[i].parentId = props.data[k].id
       /\ props.data[k].parentId = props.data[i].id

-----------------------------------------------------------------------------
(* The release of a handle that was pressed and not moved *)

\* the step is the release of a drag whose live width is the width captured
\* at the press
ReleasedUnmoved ==
  /\ lastEvent'.op = "onGlobalMouseUp"
  /\ state.editingEnd # <<>>
  /\ ~editingDisabled(props)
  /\ state.editingEnd[1].liveWidthPct = state.editingEnd[1].startWidthPct

\* C29: a press and release of a bar's end-date handle with no move between
\* them (adjustableEndDate enabled) stores as the row's override the
\* effective end date the row had: the conversion of the bar's right edge to
\* a date over the captured axis window inverts the mapping that drew the
\* bar, in every zoom level.
C29_UnmovedReleaseKeepsEnd ==
  [][ReleasedUnmoved
       => /\ state.editingEnd[1].rowId \in DOMAIN state'.endDateOverrides
          /\ state'.endDateOverrides[state.editingEnd[1].rowId]
               = effectiveEndOf(state, RowOf(props, state.editingEnd[1].rowId))]_vars

\* the part of C29 the code keeps: a press in month or week zoom on a bar
\* wider than the minimum captures an edge that converts to the effective
\* end date, to the precision of the fixed-point percentages (one tick)
C29_LinearEdgeNearEnd ==
  [][(/\ lastEvent'.op = "startBarEndEdit"
      /\ state'.editingEnd # <<>>
      /\ state.zoomLevel # "year"
      /\ state'.editingEnd[1].startWidthPct > Fixed(2))
       => \E d \in {0, 1} :
            newEndOf(state'.editingEnd[1]) + d
              = effectiveEndOf(state, RowOf(props, state'.editingEnd[1].rowId))]_vars

-----------------------------------------------------------------------------
(* Teardown while a pointer drag is in progress *)

InitUnmount == Constructed(DragProps(PointerData, TRUE), Dom(1000, 1000))

\* a handle is pressed while the button is up, the pointer moves and the
\* button is released; the component is unmounted at any moment, and the
\* window delivers the pointer's events to the listeners that are on
NextUnmount ==
  \/ Mount
  \/ MeasureTimer
  \/ CenterTimer
  \/ ButtonUp /\ onNameResizeStart(ResizePress)
  \/ \E clientX \in PointerMoves : onNameResizeMove(clientX)
  \/ onNameResizeEnd
  \/ \E rowId \in 1..Len(props.data) :
       /\ ButtonUp
       /\ rowId \notin DOMAIN state.endDateOverrides
       /\ startBarEndEdit(rowId, DragPress)
  \/ \E clientX \in PointerMoves : onBarDragMove(clientX)
  \/ onGlobalMouseUp
  \/ Unmount
  \/ \E clientX \in PointerMoves : onNameResizeMoveUnmounted(clientX)
  \/ onNameResizeEndUnmounted
  \/ \E clientX \in PointerMoves : onBarDragMoveUnmounted(clientX)
  \/ onGlobalMouseUpUnmounted

SpecUnmount == InitUnmount /\ [][NextUnmount]_vars

\* C30: after componentWillUnmount no mousemove or mouseup listener of the
\* window that the component installed is still registered, and no later
\* pointer event changes the component's state, schedules a timeout or calls
\* onEndDateChange; the same when the unmount comes during a resize of the
\* name column or a drag of an end date.
C30_UnmountReleasesPointer ==
  /\ [](phase = "unmounted" => listeners \cap dragListeners = {})
  /\ [][phase = "unmounted"
         => /\ state' = state
            /\ Pending(measureTimers') <= Pending(measureTimers)
            /\ lastEvent'.changeCalls = <<>>]_vars

\* the part of C30 the code keeps: an unmount while no drag is in progress
\* leaves none of these listeners, and no event after any unmount changes
\* the component's state or the scroll offset
C30_StateKeptAfterUnmount ==
  /\ [][(Unmount /\ ButtonUp) => listeners' \cap dragListeners = {}]_vars
  /\ [][phase = "unmounted"
         => /\ state' = state
            /\ wrapper' = wrapper]_vars

=============================================================================
